---- MODULE Spec2Model ----
(***************************************************************************)
(* Model of the placement engine of ai-layout-optimizer                    *)
(* (src/src/layout_generator/layout_generator.ts, class LayoutGenerator):  *)
(* the grid of tiles, its plots, the building set, the inventory counters  *)
(* and the three mutating operations placeRoad, placeBuilding and          *)
(* removeBuilding.                                                         *)
(*                                                                         *)
(* Building objects are caller-owned JavaScript objects that the engine    *)
(* keeps by reference and whose `position` field it assigns; they are      *)
(* modelled as a pool of handles (BuildingObjects) with immutable fields   *)
(* (Building) and one mutable field (variable position).  An optional      *)
(* value is a sequence of length 0 or 1.                                   *)
(***************************************************************************)
EXTENDS Integers, Sequences, FiniteSets, TLC

\* How far outside the grid the positions handed to the operations reach.
Margin == 1

\* How many operations a behaviour calls.
MaxCalls == 3

\* The plot configurations the engine is constructed from.
Configs ==
  { [plotsX |-> 2, plotsY |-> 1, plotSize |-> [width |-> 1, height |-> 2]],
    [plotsX |-> 1, plotsY |-> 2, plotSize |-> [width |-> 2, height |-> 1]],
    [plotsX |-> 1, plotsY |-> 1, plotSize |-> [width |-> 2, height |-> 2]] }

\* The building objects the caller owns; "flat" shares its name with "house".
BuildingObjects == {"house", "flat", "park"}

\* An optional bonus descriptor is a sequence of length 0 or 1.
Bonus(type, percentage, radius, neighborhoodType) ==
  <<[type |-> type, percentage |-> percentage, radius |-> radius,
     neighborhoodType |-> neighborhoodType]>>

\* The objects of the bonus calculations, after the templates of
\* src/data/buildings.ts (cottage 50, shop 200, passenger terminal 300 with
\* 15% passengers, coin decorations of 10% and 5%, a statue without bonus).
\* A decoration with requiresRoad false has no revenue field; it is 0 here
\* and never read.
BonusObjects == {"cottage", "shop", "terminal", "lake", "fountain", "statue"}

Building ==
  [ house |-> [id |-> "a", name |-> "House", type |-> "residential",
               size |-> [width |-> 1, height |-> 1], requiresRoad |-> TRUE,
               revenue |-> 100, bonus |-> <<>>],
    flat  |-> [id |-> "b", name |-> "House", type |-> "residential",
               size |-> [width |-> 2, height |-> 1], requiresRoad |-> TRUE,
               revenue |-> 100, bonus |-> <<>>],
    park  |-> [id |-> "c", name |-> "Park", type |-> "decoration",
               size |-> [width |-> 1, height |-> 2], requiresRoad |-> FALSE,
               revenue |-> 0, bonus |-> <<>>],
    cottage  |-> [id |-> "cottage_1", name |-> "Cottage", type |-> "residential",
                  size |-> [width |-> 1, height |-> 1], requiresRoad |-> TRUE,
                  revenue |-> 50, bonus |-> <<>>],
    shop     |-> [id |-> "shop_1", name |-> "Shop", type |-> "commercial",
                  size |-> [width |-> 1, height |-> 1], requiresRoad |-> TRUE,
                  revenue |-> 200, bonus |-> <<>>],
    terminal |-> [id |-> "passenger_terminal_1", name |-> "Passenger Terminal",
                  type |-> "decoration",
                  size |-> [width |-> 1, height |-> 1], requiresRoad |-> TRUE,
                  revenue |-> 300, bonus |-> Bonus("passengers", 15, 1, "moore")],
    lake     |-> [id |-> "small_lake_1", name |-> "Small Lake", type |-> "decoration",
                  size |-> [width |-> 1, height |-> 1], requiresRoad |-> FALSE,
                  revenue |-> 0, bonus |-> Bonus("coins", 10, 1, "manhattan")],
    fountain |-> [id |-> "fountain_1", name |-> "Fountain", type |-> "decoration",
                  size |-> [width |-> 1, height |-> 2], requiresRoad |-> FALSE,
                  revenue |-> 0, bonus |-> Bonus("coins", 5, 1, "moore")],
    statue   |-> [id |-> "statue_1", name |-> "Statue", type |-> "decoration",
                  size |-> [width |-> 1, height |-> 1], requiresRoad |-> FALSE,
                  revenue |-> 0, bonus |-> <<>>] ]

\* Ids handed to removeBuilding: the ids of the pool and one unknown id.
BuildingIds == {Building[o].id : o \in BuildingObjects} \cup {"non_existent"}

BuildingNames == {Building[o].name : o \in BuildingObjects}

VARIABLES
  config,            \* the PlotConfiguration the engine was constructed from
  tiles,             \* grid.tiles[y][x]
  plots,             \* grid.plots, in construction order
  buildings,         \* Map<string, Building>: id -> building object
  buildingInventory, \* Map<string, number>: name -> count
  position,          \* the position field of each building object
  lastCall,          \* the last operation called, its arguments and result
  nCalls             \* the number of operations called so far

vars == <<config, tiles, plots, buildings, buildingInventory, position, lastCall, nCalls>>

----------------------------------------------------------------------------
(* Tiles *)

NoBuildingId == ""

RoadTile == [type |-> "road", isOccupied |-> TRUE, buildingId |-> NoBuildingId]

EmptyTile == [type |-> "empty", isOccupied |-> FALSE, buildingId |-> NoBuildingId]

BuildingTile(id) == [type |-> "building", isOccupied |-> TRUE, buildingId |-> id]

Pos(px, py) == [x |-> px, y |-> py]

----------------------------------------------------------------------------
(* Grid construction *)

GridWidth(c) == c.plotsX * c.plotSize.width

GridHeight(c) == c.plotsY * c.plotSize.height + 1

\* checkPlotNeighbors whose south test also passes on the last row.
checkPlotNeighborsSouthOffByOne(plotX, plotY, totalPlotsX, totalPlotsY) ==
  LET hasNorth == plotY > 0
      hasSouth == plotY < totalPlotsY
      hasEast  == plotX < totalPlotsX - 1
      hasWest  == plotX > 0
  IN  hasNorth \/ hasSouth \/ hasEast \/ hasWest

checkPlotNeighbors(plotX, plotY, totalPlotsX, totalPlotsY) ==
  LET hasNorth == plotY > 0
      hasSouth == plotY < totalPlotsY - 1
      hasEast  == plotX < totalPlotsX - 1
      hasWest  == plotX > 0
  IN  hasNorth \/ hasSouth \/ hasEast \/ hasWest

\* createPlot throws when the plot has no neighbour.
createPlotThrows(c, plotX, plotY) ==
  ~checkPlotNeighbors(plotX, plotY,
                      GridWidth(c) \div c.plotSize.width,
                      (GridHeight(c) - 1) \div c.plotSize.height)

\* createPlot that does not move the plots below the road of row 0.
createPlotOnRoadRow(c, plotX, plotY) ==
  [ id       |-> "plot_" \o ToString(plotX) \o "_" \o ToString(plotY),
    position |-> Pos(plotX * c.plotSize.width, plotY * c.plotSize.height),
    size     |-> c.plotSize,
    tiles    |-> [y \in 0..(c.plotSize.height - 1) |->
                   [x \in 0..(c.plotSize.width - 1) |-> EmptyTile]] ]

createPlot(c, plotX, plotY) ==
  [ id       |-> "plot_" \o ToString(plotX) \o "_" \o ToString(plotY),
    position |-> Pos(plotX * c.plotSize.width, plotY * c.plotSize.height + 1),
    size     |-> c.plotSize,
    tiles    |-> [y \in 0..(c.plotSize.height - 1) |->
                   [x \in 0..(c.plotSize.width - 1) |-> EmptyTile]] ]

\* The constructor fails when any createPlot call throws.
createGridThrows(c) ==
  \E plotY \in 0..(c.plotsY - 1), plotX \in 0..(c.plotsX - 1) :
     createPlotThrows(c, plotX, plotY)

createGridTiles(c) ==
  [y \in 0..(GridHeight(c) - 1) |->
    [x \in 0..(GridWidth(c) - 1) |-> IF y = 0 THEN RoadTile ELSE EmptyTile]]

\* Plots are pushed with plotY in the outer loop and plotX in the inner one.
createGridPlots(c) ==
  [i \in 1..(c.plotsX * c.plotsY) |->
     createPlot(c, (i - 1) % c.plotsX, (i - 1) \div c.plotsX)]

----------------------------------------------------------------------------
(* Utility functions of the engine *)

isValidPosition(p) ==
  /\ p.x >= 0
  /\ p.x < GridWidth(config)
  /\ p.y >= 0
  /\ p.y < GridHeight(config)

isValidLocalPosition(p, plotSize) ==
  /\ p.x >= 0
  /\ p.x < plotSize.width
  /\ p.y >= 0
  /\ p.y < plotSize.height

PlotContains(plot, p) ==
  /\ p.x >= plot.position.x
  /\ p.x < plot.position.x + plot.size.width
  /\ p.y >= plot.position.y
  /\ p.y < plot.position.y + plot.size.height

\* Index in plots of the first plot containing p, 0 for null.
getPlotAtPosition(p) ==
  LET found == {i \in 1..Len(plots) : PlotContains(plots[i], p)}
  IN  IF found = {} THEN 0
      ELSE CHOOSE i \in found : \A j \in found : i <= j

\* globalToLocalPosition that forgets to subtract the plot's origin.
globalToLocalPositionNoOffset(p, plot) == p

globalToLocalPosition(p, plot) ==
  Pos(p.x - plot.position.x, p.y - plot.position.y)

\* The tile positions of the rectangle of the given size at p, as the
\* nested y/x loops of hasOverlap, occupyTiles and removeBuilding visit them.
Rect(p, size) ==
  {Pos(x, y) : x \in p.x..(p.x + size.width - 1),
               y \in p.y..(p.y + size.height - 1)}

\* buildingFitsInPlot without the comparison of the right edge.
buildingFitsInPlotNoEndX(b, p, plot) ==
  LET buildingEndY == p.y + b.size.height - 1
      plotEndY == plot.position.y + plot.size.height - 1
  IN  /\ p.x >= plot.position.x
      /\ p.y >= plot.position.y
      /\ buildingEndY <= plotEndY

buildingFitsInPlot(b, p, plot) ==
  LET buildingEndX == p.x + b.size.width - 1
      buildingEndY == p.y + b.size.height - 1
      plotEndX == plot.position.x + plot.size.width - 1
      plotEndY == plot.position.y + plot.size.height - 1
  IN  /\ p.x >= plot.position.x
      /\ p.y >= plot.position.y
      /\ buildingEndX <= plotEndX
      /\ buildingEndY <= plotEndY

\* hasOverlap looking at the top-left tile only.
hasOverlapFirstTileOnly(b, p) ==
  \/ ~isValidPosition(p)
  \/ tiles[p.y][p.x].isOccupied

hasOverlap(b, p) ==
  \E q \in Rect(p, b.size) :
     \/ ~isValidPosition(q)
     \/ tiles[q.y][q.x].isOccupied

\* getAdjacentPositions with the four corner tiles added (8-neighbourhood).
getAdjacentPositionsWithCorners(b, p) ==
  {Pos(x, p.y - 1) : x \in (p.x - 1)..(p.x + b.size.width)}
    \cup {Pos(x, p.y + b.size.height) : x \in (p.x - 1)..(p.x + b.size.width)}
    \cup {Pos(p.x - 1, y) : y \in p.y..(p.y + b.size.height - 1)}
    \cup {Pos(p.x + b.size.width, y) : y \in p.y..(p.y + b.size.height - 1)}

getAdjacentPositions(b, p) ==
  {Pos(x, p.y - 1) : x \in p.x..(p.x + b.size.width - 1)}
    \cup {Pos(x, p.y + b.size.height) : x \in p.x..(p.x + b.size.width - 1)}
    \cup {Pos(p.x - 1, y) : y \in p.y..(p.y + b.size.height - 1)}
    \cup {Pos(p.x + b.size.width, y) : y \in p.y..(p.y + b.size.height - 1)}

hasRoadAccess(b, p) ==
  \E q \in getAdjacentPositions(b, p) :
     /\ isValidPosition(q)
     /\ tiles[q.y][q.x].type = "road"

\* occupyTiles whose y loop stops one row early.
occupyTilesShortLoop(b, p) ==
  [y \in DOMAIN tiles |->
    [x \in DOMAIN tiles[y] |->
       IF /\ x \in p.x..(p.x + b.size.width - 1)
          /\ y \in p.y..(p.y + b.size.height - 2)
       THEN BuildingTile(b.id)
       ELSE tiles[y][x]]]

\* grid.tiles after occupyTiles(building, p)
occupyTiles(b, p) ==
  [y \in DOMAIN tiles |->
    [x \in DOMAIN tiles[y] |->
       IF Pos(x, y) \in Rect(p, b.size) THEN BuildingTile(b.id)
       ELSE tiles[y][x]]]

\* The clearing loop of removeBuilding starting one row too high.
clearTilesFromRowAbove(b, p) ==
  [y \in DOMAIN tiles |->
    [x \in DOMAIN tiles[y] |->
       IF /\ x \in p.x..(p.x + b.size.width - 1)
          /\ y \in (p.y - 1)..(p.y + b.size.height - 1)
       THEN EmptyTile
       ELSE tiles[y][x]]]

\* grid.tiles after the clearing loop of removeBuilding
clearTiles(b, p) ==
  [y \in DOMAIN tiles |->
    [x \in DOMAIN tiles[y] |->
       IF Pos(x, y) \in Rect(p, b.size) THEN EmptyTile
       ELSE tiles[y][x]]]

MapSet(m, k, v) == (k :> v) @@ m

\* Map.delete that leaves the entry in place.
MapDeleteNothing(m, k) == m

MapDelete(m, k) == [i \in DOMAIN m \ {k} |-> m[i]]

MapGetOr(m, k, d) == IF k \in DOMAIN m THEN m[k] ELSE d

----------------------------------------------------------------------------
(* The positions handed to the operations *)

\* Every grid position, and the positions up to Margin tiles outside the grid
\* straight above, below, left and right of it.
InputPositions ==
  {p \in {Pos(x, y) : x \in (0 - Margin)..(GridWidth(config) - 1 + Margin),
                      y \in (0 - Margin)..(GridHeight(config) - 1 + Margin)} :
     \/ p.x \in 0..(GridWidth(config) - 1)
     \/ p.y \in 0..(GridHeight(config) - 1)}

NoPlacement == [plotId |-> "", isValid |-> FALSE, hasRoadAccess |-> FALSE]

\* The record of a call.  For a placeBuilding that succeeds it also keeps the
\* grid tiles and the building set the call started from.
Call(op, obj, id, p, result, placement) ==
  [op |-> op, building |-> obj, buildingId |-> id, position |-> p,
   result |-> result, placement |-> placement,
   before |-> IF op = "placeBuilding" /\ result
              THEN <<[tiles |-> tiles, buildings |-> buildings]>>
              ELSE <<>>]

----------------------------------------------------------------------------
(* Operations *)

\* One more call is made, while the model's limit on calls allows it.
Called ==
  /\ nCalls < MaxCalls
  /\ nCalls' = nCalls + 1

Init ==
  /\ config \in {c \in Configs : ~createGridThrows(c)}
  /\ tiles = createGridTiles(config)
  /\ plots = createGridPlots(config)
  /\ buildings = <<>>
  /\ buildingInventory = <<>>
  /\ position = [o \in BuildingObjects |-> <<>>]
  /\ nCalls = 0
  /\ lastCall = Call("new", "", "", Pos(0, 0), TRUE, NoPlacement)

placeRoadResult(p) ==
  LET i == getPlotAtPosition(p)
  IN  /\ isValidPosition(p)
      /\ p.y # 0
      /\ i # 0
      /\ isValidLocalPosition(globalToLocalPosition(p, plots[i]), plots[i].size)

placeRoad(p) ==
  /\ Called
  /\ lastCall' = Call("placeRoad", "", "", p, placeRoadResult(p), NoPlacement)
  /\ IF placeRoadResult(p)
     THEN LET i == getPlotAtPosition(p)
              localPos == globalToLocalPosition(p, plots[i])
          IN  /\ tiles' = [tiles EXCEPT ![p.y][p.x] = RoadTile]
              /\ plots' = [plots EXCEPT ![i].tiles[localPos.y][localPos.x] = RoadTile]
     ELSE UNCHANGED <<tiles, plots>>
  /\ UNCHANGED <<config, buildings, buildingInventory, position>>

\* placeBuildingOutcome that looks for road access before it looks for
\* overlaps, and reports it in the outcome of an overlap.
placeBuildingOutcomeAccessFirst(b, p) ==
  LET i == getPlotAtPosition(p)
  IN  IF ~isValidPosition(p) THEN NoPlacement
      ELSE IF i = 0 THEN NoPlacement
      ELSE IF ~buildingFitsInPlot(b, p, plots[i])
        THEN [plotId |-> plots[i].id, isValid |-> FALSE, hasRoadAccess |-> FALSE]
      ELSE LET access == IF b.requiresRoad THEN hasRoadAccess(b, p) ELSE TRUE
           IN  IF hasOverlap(b, p) \/ (~access /\ b.requiresRoad)
                 THEN [plotId |-> plots[i].id, isValid |-> FALSE,
                       hasRoadAccess |-> access]
                 ELSE [plotId |-> plots[i].id, isValid |-> TRUE,
                       hasRoadAccess |-> access]

\* The BuildingPlacement that placeBuilding returns (without the building
\* and position it echoes, which lastCall records).
placeBuildingOutcome(b, p) ==
  LET i == getPlotAtPosition(p)
  IN  IF ~isValidPosition(p) THEN NoPlacement
      ELSE IF i = 0 THEN NoPlacement
      ELSE IF ~buildingFitsInPlot(b, p, plots[i])
        THEN [plotId |-> plots[i].id, isValid |-> FALSE, hasRoadAccess |-> FALSE]
      ELSE IF hasOverlap(b, p)
        THEN [plotId |-> plots[i].id, isValid |-> FALSE, hasRoadAccess |-> FALSE]
      ELSE LET access == IF b.requiresRoad THEN hasRoadAccess(b, p) ELSE TRUE
           IN  IF ~access /\ b.requiresRoad
                 THEN [plotId |-> plots[i].id, isValid |-> FALSE,
                       hasRoadAccess |-> access]
                 ELSE [plotId |-> plots[i].id, isValid |-> TRUE,
                       hasRoadAccess |-> access]

\* placeBuilding that assigns building.position before validating.
placeBuildingPositionFirst(o, p) ==
  LET b == Building[o]
      placement == placeBuildingOutcome(b, p)
  IN  /\ Called
      /\ lastCall' = Call("placeBuilding", o, b.id, p, placement.isValid, placement)
      /\ position' = [position EXCEPT ![o] = <<p>>]
      /\ IF placement.isValid
         THEN /\ tiles' = occupyTiles(b, p)
              /\ buildings' = MapSet(buildings, b.id, o)
              /\ buildingInventory' =
                   MapSet(buildingInventory, b.name,
                          MapGetOr(buildingInventory, b.name, 0) + 1)
         ELSE UNCHANGED <<tiles, buildings, buildingInventory>>
      /\ UNCHANGED <<config, plots>>

placeBuilding(o, p) ==
  LET b == Building[o]
      placement == placeBuildingOutcome(b, p)
  IN  /\ Called
      /\ lastCall' = Call("placeBuilding", o, b.id, p, placement.isValid, placement)
      /\ IF placement.isValid
         THEN /\ tiles' = occupyTiles(b, p)
              /\ position' = [position EXCEPT ![o] = <<p>>]
              /\ buildings' = MapSet(buildings, b.id, o)
              /\ buildingInventory' =
                   MapSet(buildingInventory, b.name,
                          MapGetOr(buildingInventory, b.name, 0) + 1)
         ELSE UNCHANGED <<tiles, position, buildings, buildingInventory>>
      /\ UNCHANGED <<config, plots>>

removeBuildingResult(id) ==
  /\ id \in DOMAIN buildings
  /\ position[buildings[id]] # <<>>

\* removeBuilding whose early return reports success.
removeBuildingEarlyReturnTrue(id) ==
  /\ Called
  /\ lastCall' = Call("removeBuilding", "", id, Pos(0, 0), TRUE, NoPlacement)
  /\ IF removeBuildingResult(id)
     THEN LET o == buildings[id]
              b == Building[o]
              currentCount == MapGetOr(buildingInventory, b.name, 0)
          IN  /\ tiles' = clearTiles(b, position[o][1])
              /\ buildings' = MapDelete(buildings, id)
              /\ buildingInventory' =
                   IF currentCount > 0
                   THEN MapSet(buildingInventory, b.name, currentCount - 1)
                   ELSE buildingInventory
     ELSE UNCHANGED <<tiles, buildings, buildingInventory>>
  /\ UNCHANGED <<config, plots, position>>

removeBuilding(id) ==
  /\ Called
  /\ lastCall' = Call("removeBuilding", "", id, Pos(0, 0),
                      removeBuildingResult(id), NoPlacement)
  /\ IF removeBuildingResult(id)
     THEN LET o == buildings[id]
              b == Building[o]
              currentCount == MapGetOr(buildingInventory, b.name, 0)
          IN  /\ tiles' = clearTiles(b, position[o][1])
              /\ buildings' = MapDelete(buildings, id)
              /\ buildingInventory' =
                   IF currentCount > 0
                   THEN MapSet(buildingInventory, b.name, currentCount - 1)
                   ELSE buildingInventory
     ELSE UNCHANGED <<tiles, buildings, buildingInventory>>
  /\ UNCHANGED <<config, plots, position>>

Next ==
  \/ \E p \in InputPositions : placeRoad(p)
  \/ \E o \in BuildingObjects, p \in InputPositions : placeBuilding(o, p)
  \/ \E id \in BuildingIds : removeBuilding(id)

Spec == Init /\ [][Next]_vars

----------------------------------------------------------------------------
(* Vocabulary of the properties, stated without the engine's own helpers *)

InGrid(p) ==
  /\ p.x \in 0..(GridWidth(config) - 1)
  /\ p.y \in 0..(GridHeight(config) - 1)

\* The building objects the building set currently refers to.
TrackedObjects == {buildings[id] : id \in DOMAIN buildings}

\* The tiles a building object covers at its recorded position.
TilesOf(o) ==
  {Pos(position[o][1].x + dx, position[o][1].y + dy) :
     dx \in 0..(Building[o].size.width - 1),
     dy \in 0..(Building[o].size.height - 1)}

\* The tiles the rectangle of building object o would cover at p.
TilesAt(o, p) ==
  {Pos(p.x + dx, p.y + dy) :
     dx \in 0..(Building[o].size.width - 1),
     dy \in 0..(Building[o].size.height - 1)}

\* The tiles of a plot.
PlotTiles(plot) ==
  {Pos(plot.position.x + dx, plot.position.y + dy) :
     dx \in 0..(plot.size.width - 1), dy \in 0..(plot.size.height - 1)}

Abs(n) == IF n < 0 THEN 0 - n ELSE n

\* The tiles outside a set of tiles that share an edge with one of them.
OrthogonalNeighbours(T) ==
  {q \in InputPositions :
     /\ q \notin T
     /\ \E r \in T : Abs(q.x - r.x) + Abs(q.y - r.y) = 1}

\* Checks 1 to 4 of placeBuilding: in the grid, in a plot, inside that plot,
\* on free tiles.
GeometryAccepts(o, p) ==
  /\ InGrid(p)
  /\ \E i \in 1..Len(plots) :
        /\ p \in PlotTiles(plots[i])
        /\ TilesAt(o, p) \subseteq PlotTiles(plots[i])
  /\ \A q \in TilesAt(o, p) : InGrid(q) /\ ~tiles[q.y][q.x].isOccupied

InventoryCount(m, n) == IF n \in DOMAIN m THEN m[n] ELSE 0

PlacedBy(c) == c.op = "placeBuilding" /\ c.placement.isValid

RejectedBy(c) == c.op = "placeBuilding" /\ ~c.placement.isValid

----------------------------------------------------------------------------
(* C1 *)

C1_NoSharedTile ==
  \A o1 \in TrackedObjects, o2 \in TrackedObjects :
     o1 # o2 => TilesOf(o1) \cap TilesOf(o2) = {}

C1_OccupiedRejected ==
  (/\ lastCall'.op = "placeBuilding"
   /\ \E q \in TilesAt(lastCall'.building, lastCall'.position) :
         InGrid(q) /\ tiles[q.y][q.x].isOccupied)
  => ~lastCall'.placement.isValid

\* C1: in every reachable state no tile lies in the rectangles of two
\* different buildings of the building set, and a placeBuilding whose
\* rectangle covers an occupied tile (road or building) returns isValid=false.
C1_NoOverlap == []C1_NoSharedTile /\ [][C1_OccupiedRejected]_vars

\* A placement over a tile of another tracked building was just rejected,
\* with two buildings in the set.
C1_Witness ==
  /\ RejectedBy(lastCall)
  /\ Cardinality(TrackedObjects) >= 2
  /\ \E q \in TilesAt(lastCall.building, lastCall.position) :
        /\ InGrid(q)
        /\ tiles[q.y][q.x].type = "building"
  /\ InGrid(lastCall.position)

----------------------------------------------------------------------------
(* C2 *)

C2_InOnePlot ==
  \A o \in TrackedObjects :
     Cardinality({i \in 1..Len(plots) : TilesOf(o) \subseteq PlotTiles(plots[i])}) = 1

C2_SpanningRejected ==
  (/\ lastCall'.op = "placeBuilding"
   /\ \E i \in 1..Len(plots) :
         /\ lastCall'.position \in PlotTiles(plots[i])
         /\ ~(TilesAt(lastCall'.building, lastCall'.position)
                \subseteq PlotTiles(plots[i])))
  => ~lastCall'.placement.isValid

\* C2: the rectangle of every building of the building set lies wholly
\* inside exactly one plot, and placeBuilding returns isValid=false when the
\* rectangle at the given position extends past the plot containing it.
C2_WithinOnePlot == []C2_InOnePlot /\ [][C2_SpanningRejected]_vars

\* A building was just rejected whose rectangle starts in a plot, lies on
\* free in-grid tiles, but crosses into the neighbouring plot.
C2_Witness ==
  /\ RejectedBy(lastCall)
  /\ \E i \in 1..Len(plots) :
        /\ lastCall.position \in PlotTiles(plots[i])
        /\ ~(TilesAt(lastCall.building, lastCall.position)
               \subseteq PlotTiles(plots[i]))
  /\ \A q \in TilesAt(lastCall.building, lastCall.position) :
        InGrid(q) /\ ~tiles[q.y][q.x].isOccupied
  /\ TrackedObjects # {}

----------------------------------------------------------------------------
(* C3 *)

\* C3: every tile of row y=0 is a road tile and occupied, in every state
\* reachable by placeRoad, placeBuilding and removeBuilding calls.
C3_InfiniteRoad ==
  \A x \in 0..(GridWidth(config) - 1) :
     tiles[0][x].type = "road" /\ tiles[0][x].isOccupied

\* A building whose rectangle touched row 0 was just removed and its tiles
\* cleared, as the second call or later.
C3_Witness ==
  /\ lastCall.op = "removeBuilding"
  /\ lastCall.result
  /\ \E o \in BuildingObjects :
        /\ Building[o].id = lastCall.buildingId
        /\ position[o] # <<>>
        /\ position[o][1].y = 1
        /\ \A q \in TilesOf(o) : tiles[q.y][q.x].type = "empty"
  /\ nCalls >= 2

----------------------------------------------------------------------------
(* C4 *)

RoadBeside(o, p) ==
  \E q \in OrthogonalNeighbours(TilesAt(o, p)) :
     InGrid(q) /\ tiles[q.y][q.x].type = "road"

C4_Step ==
  lastCall'.op = "placeBuilding" =>
    LET o == lastCall'.building
        p == lastCall'.position
        out == lastCall'.placement
    IN  /\ (Building[o].requiresRoad /\ out.isValid) => RoadBeside(o, p)
        /\ (Building[o].requiresRoad /\ GeometryAccepts(o, p) /\ ~RoadBeside(o, p))
             => /\ ~out.isValid
                /\ ~out.hasRoadAccess
                /\ UNCHANGED <<tiles, plots, buildings, buildingInventory, position>>
        /\ (~Building[o].requiresRoad /\ GeometryAccepts(o, p)) => out.isValid

\* C4: a building with requiresRoad=true is placed only if an in-grid tile
\* sharing an edge with its rectangle is a road tile at the time of the call;
\* when the geometric checks pass and there is none the outcome is
\* isValid=false, hasRoadAccess=false and nothing is placed; a building with
\* requiresRoad=false is never rejected by the road check.
C4_RoadAccess == [][C4_Step]_vars

\* A road-requiring building was just rejected on free tiles inside a plot
\* while a road tile touches its rectangle only at a corner.
C4_Witness ==
  /\ RejectedBy(lastCall)
  /\ Building[lastCall.building].requiresRoad
  /\ GeometryAccepts(lastCall.building, lastCall.position)
  /\ ~lastCall.placement.hasRoadAccess
  /\ \E q \in InputPositions :
        /\ InGrid(q)
        /\ tiles[q.y][q.x].type = "road"
        /\ Abs(q.x - lastCall.position.x) = 1
        /\ Abs(q.y - lastCall.position.y) = 1

----------------------------------------------------------------------------
(* C5 *)

C5_Step ==
  RejectedBy(lastCall') =>
    UNCHANGED <<tiles, plots, buildings, buildingInventory, position>>

\* C5: when placeBuilding returns isValid=false the grid tiles, the plots'
\* tile copies, the building set, the inventory counters and the position
\* field of the building passed in are unchanged.
C5_RejectionChangesNothing == [][C5_Step]_vars

\* A tracked building was just rejected at a position other than the one it
\* is recorded at, by the road check (the last of the five checks).
C5_Witness ==
  /\ RejectedBy(lastCall)
  /\ lastCall.building \in TrackedObjects
  /\ position[lastCall.building] # <<lastCall.position>>
  /\ GeometryAccepts(lastCall.building, lastCall.position)

----------------------------------------------------------------------------
(* C6 *)

C6_Step ==
  PlacedBy(lastCall') =>
    LET o == lastCall'.building
        p == lastCall'.position
        b == Building[o]
    IN  /\ \A q \in TilesAt(o, p) :
              /\ tiles'[q.y][q.x].type = "building"
              /\ tiles'[q.y][q.x].buildingId = b.id
              /\ tiles'[q.y][q.x].isOccupied
        /\ b.id \in DOMAIN buildings'
        /\ buildings'[b.id] = o
        /\ position'[o] = <<p>>
        /\ InventoryCount(buildingInventory', b.name)
             = InventoryCount(buildingInventory, b.name) + 1
        /\ \A y \in DOMAIN tiles : \A x \in DOMAIN tiles[y] :
              Pos(x, y) \notin TilesAt(o, p) => tiles'[y][x] = tiles[y][x]

\* C6: when placeBuilding returns isValid=true every tile of the rectangle is
\* an occupied building tile tagged with the building's id, the building set
\* maps the id to the building with the requested position, the inventory
\* counter of its name is one higher than before, and no other tile changes.
C6_PlacementEffect == [][C6_Step]_vars

\* A building of more than one tile was just placed next to other occupied
\* tiles, its name already counted once.
C6_Witness ==
  /\ PlacedBy(lastCall)
  /\ Cardinality(TilesAt(lastCall.building, lastCall.position)) >= 2
  /\ InventoryCount(buildingInventory, Building[lastCall.building].name) >= 2

----------------------------------------------------------------------------
(* C7 *)

\* C7: every grid tile of type building carries a buildingId that is a key
\* of the current building set, in every state reachable by placeRoad,
\* placeBuilding and removeBuilding calls, placements of an id that is
\* already in the building set included.
C7_TileRefsResolve ==
  \A y \in DOMAIN tiles : \A x \in DOMAIN tiles[y] :
     tiles[y][x].type = "building" => tiles[y][x].buildingId \in DOMAIN buildings

----------------------------------------------------------------------------
(* C8 *)

TrackedNamed(n) == {id \in DOMAIN buildings : Building[buildings[id]].name = n}

\* C8: after every placeBuilding and removeBuilding call the inventory
\* counter of each name equals the number of buildings of the building set
\* with that name, a missing counter counting as 0.
C8_InventoryMatchesSet ==
  \A n \in BuildingNames :
     InventoryCount(buildingInventory, n) = Cardinality(TrackedNamed(n))

----------------------------------------------------------------------------
(* C9 *)

RoadAndOccupied(t) == t.type = "road" /\ t.isOccupied

C9_Step ==
  lastCall'.op = "placeRoad" =>
    LET p == lastCall'.position
    IN  /\ (~InGrid(p) \/ p.y = 0)
             => ~lastCall'.result /\ tiles' = tiles /\ plots' = plots
        /\ (InGrid(p) /\ p.y # 0)
             => /\ lastCall'.result
                /\ RoadAndOccupied(tiles'[p.y][p.x])
                /\ \E i \in 1..Len(plots) :
                      /\ p \in PlotTiles(plots[i])
                      /\ RoadAndOccupied(
                           plots'[i].tiles[p.y - plots[i].position.y]
                                          [p.x - plots[i].position.x])
        /\ (lastCall.op = "placeRoad" /\ lastCall.position = p)
             => UNCHANGED <<tiles, plots, buildings, buildingInventory, position>>

----------------------------------------------------------------------------
(* C10 *)

C10_Step ==
  (/\ lastCall'.op = "removeBuilding"
   /\ \/ lastCall'.buildingId \notin DOMAIN buildings
      \/ position[buildings[lastCall'.buildingId]] = <<>>)
  => /\ ~lastCall'.result
     /\ UNCHANGED <<tiles, buildings, buildingInventory>>

\* C10: removeBuilding(id) with an id that is not in the building set, or
\* whose building has no recorded position, returns false and leaves the
\* grid tiles, the building set and the inventory counters unchanged.
C10_RemoveUnknown == [][C10_Step]_vars

\* removeBuilding was just refused for the id of a building that was placed
\* and removed before (its object still carries the old position).
C10_Witness ==
  /\ lastCall.op = "removeBuilding"
  /\ ~lastCall.result
  /\ lastCall.buildingId \notin DOMAIN buildings
  /\ \E o \in BuildingObjects :
        Building[o].id = lastCall.buildingId /\ position[o] # <<>>

----------------------------------------------------------------------------
(* C11 *)

C11_Step ==
  (/\ lastCall'.op = "removeBuilding"
   /\ lastCall'.buildingId \in DOMAIN buildings)
  => LET id == lastCall'.buildingId
         o == buildings[id]
         n == Building[o].name
     IN  /\ lastCall'.result
         /\ \A q \in TilesOf(o) :
               tiles'[q.y][q.x].type = "empty" /\ ~tiles'[q.y][q.x].isOccupied
         /\ id \notin DOMAIN buildings'
         /\ InventoryCount(buildingInventory', n)
              = InventoryCount(buildingInventory, n) - 1
         /\ InventoryCount(buildingInventory', n) >= 0

\* C11: removeBuilding of a building that was placed and is still in the
\* building set, whatever was called in between, returns true; afterwards
\* every tile of the rectangle at the building's recorded position is empty
\* and unoccupied, its id is not in the building set, and the inventory
\* counter of its name is one lower than just before and not negative.
C11_RemovalEffect == [][C11_Step]_vars

\* A building of two tiles was just removed after a road had been laid over
\* one of its tiles.
C11_Witness ==
  /\ lastCall.op = "removeBuilding"
  /\ lastCall.result
  /\ \E o \in BuildingObjects :
        /\ Building[o].id = lastCall.buildingId
        /\ position[o] # <<>>
        /\ Cardinality(TilesOf(o)) = 2
        /\ \A q \in TilesOf(o) : tiles[q.y][q.x] = EmptyTile
        /\ \E q \in TilesOf(o) : \E i \in 1..Len(plots) :
              /\ q \in PlotTiles(plots[i])
              /\ plots[i].tiles[q.y - plots[i].position.y]
                               [q.x - plots[i].position.x].type = "road"

----------------------------------------------------------------------------
(* C12 *)

C12_Step ==
  (/\ PlacedBy(lastCall)
   /\ lastCall'.op = "removeBuilding"
   /\ lastCall'.buildingId = lastCall.buildingId)
  => /\ tiles' = lastCall.before[1].tiles
     /\ buildings' = lastCall.before[1].buildings

\* C12: a successful placeBuilding(B, p) immediately followed by
\* removeBuilding(B.id) leaves the grid's tiles and the building set as they
\* were before the placement.
C12_RoundTrip == [][C12_Step]_vars

----------------------------------------------------------------------------
(* C13 *)

C13_Step ==
  /\ RejectedBy(lastCall')
       => position'[lastCall'.building] = position[lastCall'.building]
  /\ (lastCall'.op = "removeBuilding" /\ lastCall'.result)
       => position'[buildings[lastCall'.buildingId]] = <<>>
  /\ \A o \in BuildingObjects :
        position'[o] # <<>> => Building[o].id \in DOMAIN buildings'

\* C13: a building has a position only while it is placed: a rejected
\* placeBuilding does not set it, after removeBuilding(id) returns true the
\* removed building object has no position, and an object that has a position
\* has its id in the building set.
C13_PositionOnlyWhilePlaced == [][C13_Step]_vars

----------------------------------------------------------------------------
(* C14 *)

\* C14: each plot's local tile array equals the part of the grid's tile array
\* the plot covers, type and occupancy of every tile, in every state
\* reachable by placeRoad, placeBuilding and removeBuilding calls.
C14_PlotsMirrorGrid ==
  \A i \in 1..Len(plots) :
     \A y \in DOMAIN plots[i].tiles : \A x \in DOMAIN plots[i].tiles[y] :
        LET g == tiles[y + plots[i].position.y][x + plots[i].position.x]
            l == plots[i].tiles[y][x]
        IN  l.type = g.type /\ l.isOccupied = g.isOccupied

----------------------------------------------------------------------------
(* Construction of the engine from any plot configuration *)

\* The largest number of plots per axis and the largest plot side constructed.
MaxPlots == 3
MaxPlotSide == 3

PlotConfigurations ==
  [plotsX : 1..MaxPlots, plotsY : 1..MaxPlots,
   plotSize : [width : 1..MaxPlotSide, height : 1..MaxPlotSide]]

\* Before `new LayoutGenerator(config)`: a configuration and no engine.
InitNew ==
  /\ config \in PlotConfigurations
  /\ tiles = <<>>
  /\ plots = <<>>
  /\ buildings = <<>>
  /\ buildingInventory = <<>>
  /\ position = [o \in BuildingObjects |-> <<>>]
  /\ nCalls = 0
  /\ lastCall = Call("", "", "", Pos(0, 0), FALSE, NoPlacement)

\* new LayoutGenerator(config); result is FALSE when the constructor throws.
construct ==
  /\ nCalls = 0
  /\ nCalls' = 1
  /\ lastCall' = Call("new", "", "", Pos(0, 0), ~createGridThrows(config), NoPlacement)
  /\ IF createGridThrows(config)
     THEN UNCHANGED <<tiles, plots>>
     ELSE /\ tiles' = createGridTiles(config)
          /\ plots' = createGridPlots(config)
  /\ UNCHANGED <<config, buildings, buildingInventory, position>>

NextNew == construct

SpecNew == InitNew /\ [][NextNew]_vars

----------------------------------------------------------------------------
(* C15 *)

PlotCoordinates(c) == (0..(c.plotsX - 1)) \X (0..(c.plotsY - 1))

\* Another plot one step north, south, east or west of plot pc.
HasNeighbourPlot(c, pc) ==
  \E qc \in PlotCoordinates(c) : Abs(qc[1] - pc[1]) + Abs(qc[2] - pc[2]) = 1

\* C15: construction from positive plotsX, plotsY and plot sizes fails exactly
\* when some plot has no north, south, east or west neighbour plot (the 1x1
\* arrangement in particular); when it succeeds every plot has a neighbour,
\* the grid is plotsX*width wide and plotsY*height+1 high, and plot
\* (plotX, plotY) has its top-left tile at (plotX*width, plotY*height+1).
C15_Construction ==
  lastCall.op = "new" /\ nCalls = 1 =>
    /\ ~lastCall.result <=> \E pc \in PlotCoordinates(config) : ~HasNeighbourPlot(config, pc)
    /\ (config.plotsX = 1 /\ config.plotsY = 1) => ~lastCall.result
    /\ lastCall.result =>
         /\ \A pc \in PlotCoordinates(config) : HasNeighbourPlot(config, pc)
         /\ DOMAIN tiles = 0..(config.plotsY * config.plotSize.height)
         /\ \A y \in DOMAIN tiles :
               DOMAIN tiles[y] = 0..(config.plotsX * config.plotSize.width - 1)
         /\ Len(plots) = config.plotsX * config.plotsY
         /\ \A pc \in PlotCoordinates(config) :
               \E i \in 1..Len(plots) :
                  /\ plots[i].id = "plot_" \o ToString(pc[1]) \o "_" \o ToString(pc[2])
                  /\ plots[i].position
                       = Pos(pc[1] * config.plotSize.width,
                             pc[2] * config.plotSize.height + 1)

\* A 3x2 arrangement of 2x3 plots was constructed.
C15_Witness ==
  /\ lastCall.op = "new"
  /\ nCalls = 1
  /\ lastCall.result
  /\ config.plotsX = 3
  /\ config.plotsY = 2
  /\ config.plotSize = [width |-> 2, height |-> 3]
  /\ Len(plots) = 6

\* The 1x1 arrangement was refused.
C15_WitnessRefused ==
  /\ lastCall.op = "new"
  /\ nCalls = 1
  /\ ~lastCall.result
  /\ config.plotsX = 1
  /\ config.plotsY = 1

----------------------------------------------------------------------------
(* The sequential optimizer (src/src/layout_generator/building_utils.ts)   *)
(*                                                                         *)
(* optimizePlacement makes many engine calls in one run, so the engine's   *)
(* operations are restated here over an explicit engine state              *)
(* e = [tiles, buildings, buildingInventory, position].                    *)

\* The longest building list handed to optimizePlacement.
MaxInput == 2

\* How many building instances one layout request asks for at most.
MaxInstances == 3

\* The rows of the building table the layout requests are resolved against.
TemplateObjects == {"shop", "lake", "park"}

dbBuildings == {Building[o] : o \in TemplateObjects}

\* The instance objects expandBuildingInstances can create under the bound:
\* the i-th copy made for the k-th entry of the request, of a given template.
\* An object is known by its handle, its id is `${name}_${i}`.
InstanceHandle(k, name, i) ==
  ToString(k) \o ":" \o name \o "_" \o ToString(i)

InstanceTable ==
  LET made == {[entry |-> k, template |-> t, index |-> i] :
                 k \in 1..MaxInstances, t \in dbBuildings,
                 i \in 1..MaxInstances}
      handleOf(m) == InstanceHandle(m.entry, m.template.name, m.index)
  IN  [h \in {handleOf(m) : m \in made} |->
         LET m == CHOOSE x \in made : handleOf(x) = h
         IN  [m.template EXCEPT !.id = m.template.name \o "_" \o ToString(m.index)]]

\* The id `test_${Date.now()}` of a probe copy; no pool building has it.
TestId == "test_now"

\* The probe copy { ...building, id: TestId } of a building object.
TestCopy(o) == "test_" \o o

TestObjects == {TestCopy(o) : o \in BuildingObjects}

TestTable ==
  LET probed == BuildingObjects \cup DOMAIN InstanceTable
  IN  [h \in {TestCopy(o) : o \in probed} |->
         LET o == CHOOSE x \in probed : TestCopy(x) = h
         IN  [(IF o \in DOMAIN Building THEN Building[o] ELSE InstanceTable[o])
                EXCEPT !.id = TestId]]

\* The fields of a building object: pool object, instance or probe copy.
Fields(h) ==
  IF h \in DOMAIN Building THEN Building[h]
  ELSE IF h \in DOMAIN InstanceTable THEN InstanceTable[h]
  ELSE TestTable[h]

Engine ==
  [tiles |-> tiles, buildings |-> buildings,
   buildingInventory |-> buildingInventory, position |-> position]

hasOverlapIn(t, b, p) ==
  \E q \in Rect(p, b.size) :
     \/ ~isValidPosition(q)
     \/ t[q.y][q.x].isOccupied

hasRoadAccessIn(t, b, p) ==
  \E q \in getAdjacentPositions(b, p) :
     /\ isValidPosition(q)
     /\ t[q.y][q.x].type = "road"

placeBuildingOutcomeIn(t, b, p) ==
  LET i == getPlotAtPosition(p)
  IN  IF ~isValidPosition(p) THEN NoPlacement
      ELSE IF i = 0 THEN NoPlacement
      ELSE IF ~buildingFitsInPlot(b, p, plots[i])
        THEN [plotId |-> plots[i].id, isValid |-> FALSE, hasRoadAccess |-> FALSE]
      ELSE IF hasOverlapIn(t, b, p)
        THEN [plotId |-> plots[i].id, isValid |-> FALSE, hasRoadAccess |-> FALSE]
      ELSE LET access == IF b.requiresRoad THEN hasRoadAccessIn(t, b, p) ELSE TRUE
           IN  IF ~access /\ b.requiresRoad
                 THEN [plotId |-> plots[i].id, isValid |-> FALSE,
                       hasRoadAccess |-> access]
                 ELSE [plotId |-> plots[i].id, isValid |-> TRUE,
                       hasRoadAccess |-> access]

\* The assignments of a nested y/x loop over a set of tile positions.
RECURSIVE setTilesIn(_, _, _)
setTilesIn(t, cells, tile) ==
  IF cells = {} THEN t
  ELSE LET q == CHOOSE c \in cells : TRUE
       IN  setTilesIn([t EXCEPT ![q.y][q.x] = tile], cells \ {q}, tile)

occupyTilesIn(t, b, p) == setTilesIn(t, Rect(p, b.size), BuildingTile(b.id))

clearTilesIn(t, b, p) == setTilesIn(t, Rect(p, b.size), EmptyTile)

\* The element of a one-element set.  An operator's argument is evaluated
\* wherever its parameter occurs; a variable bound over a one-element set
\* holds the value.
The(S) == CHOOSE x \in S : TRUE

\* The engine state after generator.placeBuilding(h, p).
placeBuildingIn(engine, h, p) ==
  The({ LET b == Fields(h)
        IN  IF placeBuildingOutcomeIn(e.tiles, b, p).isValid
            THEN [tiles |-> occupyTilesIn(e.tiles, b, p),
                  position |-> MapSet(e.position, h, <<p>>),
                  buildings |-> MapSet(e.buildings, b.id, h),
                  buildingInventory |->
                    MapSet(e.buildingInventory, b.name,
                           MapGetOr(e.buildingInventory, b.name, 0) + 1)]
            ELSE e
      : e \in {engine} })

\* The engine state after generator.removeBuilding(id).
removeBuildingIn(engine, id) ==
  The({ IF id \in DOMAIN e.buildings /\ e.position[e.buildings[id]] # <<>>
        THEN LET h == e.buildings[id]
                 b == Fields(h)
                 currentCount == MapGetOr(e.buildingInventory, b.name, 0)
             IN  [tiles |-> clearTilesIn(e.tiles, b, e.position[h][1]),
                  position |-> e.position,
                  buildings |-> MapDelete(e.buildings, id),
                  buildingInventory |->
                    IF currentCount > 0
                    THEN MapSet(e.buildingInventory, b.name, currentCount - 1)
                    ELSE e.buildingInventory]
        ELSE e
      : e \in {engine} })

\* ScanPositions with the x loop outside the y loop.
ScanPositionsColumnMajor(b, plot) ==
  LET nY == plot.size.height - b.size.height + 1
      nX == plot.size.width - b.size.width + 1
  IN  IF nY <= 0 \/ nX <= 0 THEN <<>>
      ELSE [k \in 1..(nY * nX) |->
              Pos(plot.position.x + ((k - 1) \div nY),
                  plot.position.y + ((k - 1) % nY))]

\* The positions the two loops of findValidPositionsInPlot visit, in order.
ScanPositions(b, plot) ==
  LET nY == plot.size.height - b.size.height + 1
      nX == plot.size.width - b.size.width + 1
  IN  IF nY <= 0 \/ nX <= 0 THEN <<>>
      ELSE [k \in 1..(nY * nX) |->
              Pos(plot.position.x + ((k - 1) % nX),
                  plot.position.y + ((k - 1) \div nX))]

\* One pass of the loop body: place a probe copy at scan[k] and, when that
\* is valid, record the position and remove the copy again.
RECURSIVE findValidPositionsFrom(_, _, _, _, _)
findValidPositionsFrom(engine, o, scan, k, validPositions) ==
  IF k > Len(scan) THEN [engine |-> engine, validPositions |-> validPositions]
  ELSE The({ LET testBuilding == TestCopy(o)
                 valid == placeBuildingOutcomeIn(e.tiles, Fields(testBuilding),
                                                 scan[k]).isValid
             IN  IF valid
                 THEN findValidPositionsFrom(
                        removeBuildingIn(placeBuildingIn(e, testBuilding, scan[k]),
                                         TestId),
                        o, scan, k + 1, Append(validPositions, scan[k]))
                 ELSE findValidPositionsFrom(
                        placeBuildingIn(e, testBuilding, scan[k]),
                        o, scan, k + 1, validPositions)
           : e \in {engine} })

\* findValidPositionsInPlot that leaves its last valid probe copy in place.
findValidPositionsInPlotLeavesProbe(e, o, plot) ==
  The({ IF found.validPositions = <<>> THEN found
        ELSE [found EXCEPT !.engine =
                placeBuildingIn(found.engine, TestCopy(o),
                                found.validPositions[Len(found.validPositions)])]
      : found \in {findValidPositionsFrom(e, o, ScanPositions(Fields(o), plot),
                                          1, <<>>)} })

findValidPositionsInPlot(e, o, plot) ==
  The({ findValidPositionsFrom(e, o, scan, 1, <<>>)
      : scan \in {ScanPositions(Fields(o), plot)} })

\* tryPlaceBuildingInPlot that takes the last valid position of the plot.
tryPlaceBuildingInPlotLastPosition(e, o, plot) ==
  The({ IF Len(found.validPositions) = 0
        THEN [engine |-> found.engine, isPlaced |-> FALSE]
        ELSE [engine |-> placeBuildingIn(found.engine, o,
                           found.validPositions[Len(found.validPositions)]),
              isPlaced |-> placeBuildingOutcomeIn(
                             found.engine.tiles, Fields(o),
                             found.validPositions[Len(found.validPositions)]).isValid]
      : found \in {findValidPositionsInPlot(e, o, plot)} })

tryPlaceBuildingInPlot(e, o, plot) ==
  The({ IF Len(found.validPositions) = 0
        THEN [engine |-> found.engine, isPlaced |-> FALSE]
        ELSE [engine |-> placeBuildingIn(found.engine, o, found.validPositions[1]),
              isPlaced |-> placeBuildingOutcomeIn(found.engine.tiles, Fields(o),
                                                  found.validPositions[1]).isValid]
      : found \in {findValidPositionsInPlot(e, o, plot)} })

\* The loop of tryPlaceBuildingInAnyPlot from plot i on.
RECURSIVE tryPlaceBuildingFromPlot(_, _, _)
tryPlaceBuildingFromPlot(e, o, i) ==
  IF i > Len(plots) THEN [engine |-> e, isPlaced |-> FALSE]
  ELSE The({ IF tried.isPlaced THEN tried
             ELSE tryPlaceBuildingFromPlot(tried.engine, o, i + 1)
           : tried \in {tryPlaceBuildingInPlot(e, o, plots[i])} })

tryPlaceBuildingInAnyPlot(e, o) == tryPlaceBuildingFromPlot(e, o, 1)

\* The loop of optimizePlacement from input[k] on.  steps keeps, for every
\* building handled, the tiles it met, whether it was placed and where.
RECURSIVE optimizePlacementFrom(_, _, _, _, _, _)
optimizePlacementFrom(engine, input, k, placed, failed, steps) ==
  IF k > Len(input)
  THEN [engine |-> engine, placed |-> placed, failed |-> failed, steps |-> steps]
  ELSE The({ LET building == input[k]
                 step == [building |-> building, isPlaced |-> tried.isPlaced,
                          tiles |-> e.tiles,
                          position |-> IF tried.isPlaced
                                       THEN tried.engine.position[building]
                                       ELSE <<>>]
             IN  IF tried.isPlaced
                 THEN optimizePlacementFrom(tried.engine, input, k + 1,
                                            Append(placed, building), failed,
                                            Append(steps, step))
                 ELSE optimizePlacementFrom(tried.engine, input, k + 1,
                                            placed, Append(failed, building),
                                            Append(steps, step))
           : e \in {engine}, tried \in {tryPlaceBuildingInAnyPlot(engine, input[k])} })

\* optimizePlacement that pushes a building it could not place nowhere.
optimizePlacementDropsFailed(input) ==
  \E run \in {optimizePlacementFrom(Engine, input, 1, <<>>, <<>>, <<>>)} :
      /\ lastCall.op # "optimizePlacement"
      /\ nCalls' = nCalls + 1
      /\ lastCall' = [input |-> input, placed |-> run.placed,
                      failed |-> <<>>, steps |-> run.steps]
                       @@ Call("optimizePlacement", "", "", Pos(0, 0), TRUE, NoPlacement)
      /\ tiles' = run.engine.tiles
      /\ buildings' = run.engine.buildings
      /\ buildingInventory' = run.engine.buildingInventory
      /\ position' = [o \in BuildingObjects |-> run.engine.position[o]]
      /\ UNCHANGED <<config, plots>>

\* BuildingUtils.optimizePlacement(input, generator), the whole run, on the
\* engine InitOpt prepared; a behaviour makes one run.  The probe copies are
\* unreachable afterwards and leave the position variable.
optimizePlacement(input) ==
  \E run \in {optimizePlacementFrom(Engine, input, 1, <<>>, <<>>, <<>>)} :
      /\ lastCall.op # "optimizePlacement"
      /\ nCalls' = nCalls + 1
      /\ lastCall' = [input |-> input, placed |-> run.placed,
                      failed |-> run.failed, steps |-> run.steps]
                       @@ Call("optimizePlacement", "", "", Pos(0, 0), TRUE, NoPlacement)
      /\ tiles' = run.engine.tiles
      /\ buildings' = run.engine.buildings
      /\ buildingInventory' = run.engine.buildingInventory
      /\ position' = [o \in BuildingObjects |-> run.engine.position[o]]
      /\ UNCHANGED <<config, plots>>

\* The building lists handed to optimizePlacement; an object may be listed
\* more than once.
InputLists == UNION {[1..n -> BuildingObjects] : n \in 0..MaxInput}

\* How many roads and buildings the engine holds at most before the run.
MaxRoads == 1
MaxPrepared == 1

\* The positions of the plots: every grid position below row 0.
PlotPositions(c) ==
  {Pos(x, y) : x \in 0..(GridWidth(c) - 1), y \in 1..(GridHeight(c) - 1)}

\* grid.tiles and grid.plots after placeRoad(p) for every p of roads.
tilesWithRoads(c, roads) ==
  [y \in 0..(GridHeight(c) - 1) |->
    [x \in 0..(GridWidth(c) - 1) |->
       IF Pos(x, y) \in roads THEN RoadTile ELSE createGridTiles(c)[y][x]]]

plotsWithRoads(c, roads) ==
  [i \in 1..(c.plotsX * c.plotsY) |->
     LET plot == createGridPlots(c)[i]
     IN  [plot EXCEPT !.tiles =
            [y \in DOMAIN plot.tiles |->
              [x \in DOMAIN plot.tiles[y] |->
                 IF Pos(x + plot.position.x, y + plot.position.y) \in roads
                 THEN RoadTile ELSE plot.tiles[y][x]]]]]

\* The engine state after placeBuilding(calls[k][1], calls[k][2]), ...
RECURSIVE placeBuildingsIn(_, _, _)
placeBuildingsIn(e, calls, k) ==
  IF k > Len(calls) THEN e
  ELSE placeBuildingsIn(placeBuildingIn(e, calls[k][1], calls[k][2]), calls, k + 1)

\* An engine that was constructed and on which placeRoad was called for up
\* to MaxRoads plot positions and then placeBuilding up to MaxPrepared times.
InitOpt ==
  /\ config \in {c \in Configs : ~createGridThrows(c)}
  /\ \E roads \in {R \in SUBSET PlotPositions(config) : Cardinality(R) <= MaxRoads} :
        /\ plots = plotsWithRoads(config, roads)
        /\ \E calls \in UNION {[1..n -> BuildingObjects \X PlotPositions(config)] :
                                 n \in 0..MaxPrepared} :
              \E e \in {placeBuildingsIn(
                          [tiles |-> tilesWithRoads(config, roads),
                           buildings |-> <<>>,
                           buildingInventory |-> <<>>,
                           position |-> [o \in BuildingObjects |-> <<>>]],
                          calls, 1)} :
                  /\ tiles = e.tiles
                  /\ buildings = e.buildings
                  /\ buildingInventory = e.buildingInventory
                  /\ position = e.position
  /\ nCalls = 0
  /\ lastCall = Call("new", "", "", Pos(0, 0), TRUE, NoPlacement)

NextOpt == \E input \in InputLists : optimizePlacement(input)

SpecOpt == InitOpt /\ [][NextOpt]_vars

----------------------------------------------------------------------------
(* C16 *)

\* The elements of s at the indices where keep is true, in order.
RECURSIVE SubSeqWhere(_, _, _)
SubSeqWhere(s, keep, k) ==
  IF k > Len(s) THEN <<>>
  ELSE (IF keep[k] THEN <<s[k]>> ELSE <<>>) \o SubSeqWhere(s, keep, k + 1)

\* C16: for any input list and any engine state, the placed and failed lists
\* that optimizePlacement returns partition the input: there is a split of
\* the input's entries into two groups such that placed is the first group
\* and failed the second, each in input order, and the lengths add up to the
\* input's length.
C16_Partition ==
  lastCall.op = "optimizePlacement" =>
    /\ Len(lastCall.placed) + Len(lastCall.failed) = Len(lastCall.input)
    /\ \E keep \in [1..Len(lastCall.input) -> BOOLEAN] :
          /\ lastCall.placed = SubSeqWhere(lastCall.input, keep, 1)
          /\ lastCall.failed
               = SubSeqWhere(lastCall.input,
                             [k \in 1..Len(lastCall.input) |-> ~keep[k]], 1)

\* A run on an engine that already held a building placed one input
\* building and failed the other.
C16_Witness ==
  /\ lastCall.op = "optimizePlacement"
  /\ Len(lastCall.input) = 2
  /\ \E y \in DOMAIN lastCall.steps[1].tiles :
        \E x \in DOMAIN lastCall.steps[1].tiles[y] :
           lastCall.steps[1].tiles[y][x].type = "building"
  /\ lastCall.input[1] # lastCall.input[2]
  /\ lastCall.placed = <<lastCall.input[2]>>
  /\ lastCall.failed = <<lastCall.input[1]>>

----------------------------------------------------------------------------
(* C17 *)

\* placeBuilding(o, p) would be valid on the tiles t.
ValidOn(t, o, p) == placeBuildingOutcomeIn(t, Building[o], p).isValid

\* p comes no later than q when plots are scanned in construction order
\* and each plot by rows (y ascending) and within a row x ascending.
ScansBefore(p, q) ==
  LET i == getPlotAtPosition(p)
      j == getPlotAtPosition(q)
  IN  \/ i < j
      \/ i = j /\ p.y < q.y
      \/ i = j /\ p.y = q.y /\ p.x <= q.x

\* Step k of the run is first-fit on the tiles it met.
FirstFit(step) ==
  LET valid == {p \in PlotPositions(config) : ValidOn(step.tiles, step.building, p)}
  IN  /\ step.isPlaced <=> valid # {}
      /\ step.isPlaced =>
           /\ step.position # <<>>
           /\ step.position[1] \in valid
           /\ \A q \in valid : ScansBefore(step.position[1], q)

\* The tiles step k + 1 met are the tiles step k left.
InInputOrder(c) ==
  /\ Len(c.steps) = Len(c.input)
  /\ \A k \in 1..Len(c.steps) : c.steps[k].building = c.input[k]
  /\ \A k \in 1..(Len(c.steps) - 1) :
        c.steps[k + 1].tiles
          = IF c.steps[k].isPlaced
            THEN occupyTilesIn(c.steps[k].tiles, Building[c.steps[k].building],
                               c.steps[k].position[1])
            ELSE c.steps[k].tiles

\* At the end of the run the building placed by step is where step put it.
StillPlaced(step) ==
  step.isPlaced =>
    /\ position[step.building] = step.position
    /\ Building[step.building].id \in DOMAIN buildings
    /\ buildings[Building[step.building].id] = step.building
    /\ \A q \in Rect(step.position[1], Building[step.building].size) :
          tiles[q.y][q.x] = BuildingTile(Building[step.building].id)

\* C17: optimizePlacement handles the buildings in input order and first-fit:
\* each building is put at the first position, plots in construction order
\* and within a plot y ascending then x ascending, at which placeBuilding is
\* valid in the engine state the earlier buildings left; it is failed only
\* if no position is valid then; and a building placed earlier in the run is
\* still at its position, in the building set and on its tiles at the end.
C17_FirstFitInOrder ==
  lastCall.op = "optimizePlacement" =>
    /\ InInputOrder(lastCall)
    /\ \A k \in 1..Len(lastCall.steps) :
          FirstFit(lastCall.steps[k]) /\ StillPlaced(lastCall.steps[k])

----------------------------------------------------------------------------
(* JavaScript numbers                                                      *)
(*                                                                         *)
(* The revenue formula Math.ceil(baseOutput * (1 + total / 100)) is        *)
(* computed in IEEE 754 double precision: each of /, + and * rounds its    *)
(* exact result to 53 significant bits, ties to even.  A non-negative      *)
(* number is a sequence of limbs of LimbBits bits, least significant       *)
(* first, FracLimbs of them below the binary point; every double that      *)
(* occurs for base outputs below 2^LimbBits and percentages of 1 and more  *)
(* lies on this grid.                                                      *)

\* Significant bits of a double.
Mantissa == 53

LimbBits == 15
FracLimbs == 4
IntLimbs == 2

Limbs == FracLimbs + IntLimbs

RECURSIVE Pow2(_)
Pow2(k) == IF k = 0 THEN 1 ELSE 2 * Pow2(k - 1)

LimbBase == Pow2(LimbBits)

\* The integer n, below 2^LimbBits, as a number.
FromNat(n) == [i \in 1..Limbs |-> IF i = FracLimbs + 1 THEN n ELSE 0]

\* The limbs of the fraction r / d for r < d, most significant first, and
\* the remainder left after FracLimbs of them.
RECURSIVE FractionLimbs(_, _, _, _)
FractionLimbs(r, d, k, limbs) ==
  IF k = FracLimbs THEN [limbs |-> limbs, remainder |-> r]
  ELSE FractionLimbs((r * LimbBase) % d, d, k + 1,
                     Append(limbs, (r * LimbBase) \div d))

\* The exact quotient n / d cut off after the fraction limbs; sticky tells
\* whether anything was cut off.
Quotient(n, d) ==
  LET frac == FractionLimbs(n % d, d, 0, <<>>)
  IN  [limbs |-> [i \in 1..Limbs |->
                    IF i <= FracLimbs THEN frac.limbs[FracLimbs - i + 1]
                    ELSE IF i = FracLimbs + 1 THEN n \div d ELSE 0],
       sticky |-> frac.remainder # 0]

\* a + b, exactly.
RECURSIVE AddFrom(_, _, _, _, _)
AddFrom(a, b, i, carry, sum) ==
  IF i > Limbs THEN sum
  ELSE AddFrom(a, b, i + 1, (a[i] + b[i] + carry) \div LimbBase,
               Append(sum, (a[i] + b[i] + carry) % LimbBase))

Sum(a, b) == AddFrom(a, b, 1, 0, <<>>)

\* a * n for an integer n below 2^LimbBits, exactly.
RECURSIVE TimesFrom(_, _, _, _, _)
TimesFrom(a, n, i, carry, product) ==
  IF i > Limbs THEN product
  ELSE TimesFrom(a, n, i + 1, (a[i] * n + carry) \div LimbBase,
                 Append(product, (a[i] * n + carry) % LimbBase))

Product(a, n) == TimesFrom(a, n, 1, 0, <<>>)

\* Bit k of a, bit 0 being the least significant of limb 1.
Bit(a, k) == (a[(k \div LimbBits) + 1] \div Pow2(k % LimbBits)) % 2

\* The number of the most significant 1 bit, -1 for zero.
MostSignificant(a) ==
  LET ones == {k \in 0..(Limbs * LimbBits - 1) : Bit(a, k) = 1}
  IN  IF ones = {} THEN 0 - 1 ELSE CHOOSE k \in ones : \A j \in ones : j <= k

\* Rounding to Mantissa significant bits, to nearest and ties to even.
RoundToDouble(a, sticky) ==
  LET last == MostSignificant(a) - Mantissa + 1
  IN  IF last <= 0 THEN a
      ELSE LET guard == Bit(a, last - 1) = 1
               rest == sticky \/ \E k \in 0..(last - 2) : Bit(a, k) = 1
               limb == (last \div LimbBits) + 1
               unit == Pow2(last % LimbBits)
               kept == [i \in 1..Limbs |->
                          IF i < limb THEN 0
                          ELSE IF i = limb THEN a[i] - (a[i] % unit)
                          ELSE a[i]]
               ulp == [i \in 1..Limbs |-> IF i = limb THEN unit ELSE 0]
           IN  IF guard /\ (rest \/ Bit(a, last) = 1) THEN Sum(kept, ulp) ELSE kept

\* Math.ceil of a double below 2^(2 * LimbBits).
Ceiling(a) ==
  a[FracLimbs + 2] * LimbBase + a[FracLimbs + 1]
    + (IF \E i \in 1..FracLimbs : a[i] # 0 THEN 1 ELSE 0)

\* Math.ceil(baseOutput * (1 + totalBonusPercentage / 100))
ceilWithBonus(baseOutput, totalBonusPercentage) ==
  LET ratio == Quotient(totalBonusPercentage, 100)
      fraction == RoundToDouble(ratio.limbs, ratio.sticky)
      factor == RoundToDouble(Sum(FromNat(1), fraction), FALSE)
      product == RoundToDouble(Product(factor, baseOutput), FALSE)
  IN  Ceiling(product)

----------------------------------------------------------------------------
(* The bonus calculator                                                    *)

OutputTypes == {"coins", "passengers"}

\* buildingProvidesOutput in which residential buildings produce coins too.
buildingProvidesOutputResidentialCoins(b, outputType) ==
  IF outputType = "coins"
  THEN b.type = "commercial" \/ b.type = "decoration" \/ b.type = "residential"
  ELSE IF outputType = "passengers"
  THEN b.type = "residential"
  ELSE FALSE

buildingProvidesOutput(b, outputType) ==
  IF outputType = "coins"
  THEN b.type = "commercial" \/ b.type = "decoration"
  ELSE IF outputType = "passengers"
  THEN b.type = "residential"
  ELSE FALSE

getBuildingOccupiedPositions(o) ==
  IF position[o] = <<>> THEN {}
  ELSE {Pos(x, y) :
          x \in position[o][1].x..(position[o][1].x + Building[o].size.width - 1),
          y \in position[o][1].y..(position[o][1].y + Building[o].size.height - 1)}

Max(m, n) == IF m >= n THEN m ELSE n

\* isWithinRadius that measures every neighbourhood as moore.
isWithinRadiusAlwaysMoore(pos1, pos2, radius, neighborhoodType) ==
  LET dx == IF pos1.x >= pos2.x THEN pos1.x - pos2.x ELSE pos2.x - pos1.x
      dy == IF pos1.y >= pos2.y THEN pos1.y - pos2.y ELSE pos2.y - pos1.y
  IN  Max(dx, dy) <= radius

isWithinRadius(pos1, pos2, radius, neighborhoodType) ==
  LET dx == IF pos1.x >= pos2.x THEN pos1.x - pos2.x ELSE pos2.x - pos1.x
      dy == IF pos1.y >= pos2.y THEN pos1.y - pos2.y ELSE pos2.y - pos1.y
  IN  IF neighborhoodType = "moore"
      THEN Max(dx, dy) <= radius
      ELSE dx + dy <= radius

isBuildingWithinRadius(target, source, radius, neighborhoodType) ==
  IF position[target] = <<>> \/ position[source] = <<>> THEN FALSE
  ELSE \E targetPos \in getBuildingOccupiedPositions(target),
          sourcePos \in getBuildingOccupiedPositions(source) :
          isWithinRadius(targetPos, sourcePos, radius, neighborhoodType)

shouldApplyBonus(target, source, outputType) ==
  /\ Building[source].bonus # <<>>
  /\ position[source] # <<>>
  /\ Building[source].id # Building[target].id
  /\ Building[source].bonus[1].type = outputType
  /\ isBuildingWithinRadius(target, source, Building[source].bonus[1].radius,
                            Building[source].bonus[1].neighborhoodType)

\* The source buildings of the bonuses calculateBonusesForType returns, one
\* per entry of the building set bs.
calculateBonusesForType(bs, target, outputType) ==
  IF ~buildingProvidesOutput(Building[target], outputType) THEN {}
  ELSE {source \in {bs[id] : id \in DOMAIN bs} :
          /\ Building[source].type = "decoration"
          /\ shouldApplyBonus(target, source, outputType)}

\* bonuses.reduce((sum, bonus) => sum + bonus.bonusPercentage, 0)
RECURSIVE reducePercentages(_)
reducePercentages(sources) ==
  IF sources = {} THEN 0
  ELSE LET source == CHOOSE x \in sources : TRUE
       IN  Fields(source).bonus[1].percentage + reducePercentages(sources \ {source})

calculateTypeRevenue(target, outputType, baseRevenue, bonuses) ==
  LET baseOutput == IF buildingProvidesOutput(Fields(target), outputType)
                    THEN baseRevenue ELSE 0
      totalBonusPercentage == reducePercentages(bonuses)
  IN  [baseOutput |-> baseOutput,
       totalBonusPercentage |-> totalBonusPercentage,
       finalOutput |-> IF baseOutput > 0
                       THEN ceilWithBonus(baseOutput, totalBonusPercentage)
                       ELSE 0,
       appliedBonuses |-> bonuses]

\* revenueBase in which a decoration that needs no road yields 100.
revenueBaseOfAnyDecoration(b) ==
  IF \/ b.type = "residential"
     \/ b.type = "commercial"
     \/ (b.type = "decoration" /\ b.requiresRoad = TRUE)
  THEN b.revenue ELSE 100

\* The revenue both calculateRevenueOutput and createEmptyRevenueResult start from.
revenueBase(b) ==
  IF \/ b.type = "residential"
     \/ b.type = "commercial"
     \/ (b.type = "decoration" /\ b.requiresRoad = TRUE)
  THEN b.revenue ELSE 0

createEmptyRevenueResult(target) ==
  [outputType \in OutputTypes |->
     LET provided == IF buildingProvidesOutput(Building[target], outputType)
                     THEN revenueBase(Building[target]) ELSE 0
     IN  [baseOutput |-> provided, totalBonusPercentage |-> 0,
          finalOutput |-> provided, appliedBonuses |-> {}]]

\* The RevenueCalculationResult of calculateRevenueOutput(target) on an
\* engine whose building set is bs.
revenueOutput(bs, target) ==
  IF position[target] = <<>> THEN createEmptyRevenueResult(target)
  ELSE [outputType \in OutputTypes |->
          calculateTypeRevenue(target, outputType, revenueBase(Building[target]),
                               calculateBonusesForType(bs, target, outputType))]

\* The BonusCalculationResult of calculateBonusOutput(target).
bonusOutput(target) ==
  LET b == Building[target]
      baseOutput == IF b.type = "residential" \/ b.type = "commercial"
                    THEN b.revenue ELSE 0
      appliedBonuses ==
        {source \in TrackedObjects :
           /\ ~(Building[source].type = "residential" \/ Building[source].type = "commercial")
           /\ ~(\/ Building[source].bonus = <<>>
                \/ position[source] = <<>>
                \/ Building[source].id = b.id)
           /\ buildingProvidesOutput(b, Building[source].bonus[1].type)
           /\ isBuildingWithinRadius(target, source, Building[source].bonus[1].radius,
                                     Building[source].bonus[1].neighborhoodType)}
      totalBonusPercentage == reducePercentages(appliedBonuses)
  IN  IF position[target] = <<>>
      THEN [baseOutput |-> baseOutput, totalBonusPercentage |-> 0,
            finalOutput |-> baseOutput, appliedBonuses |-> {}]
      ELSE [baseOutput |-> baseOutput,
            totalBonusPercentage |-> totalBonusPercentage,
            finalOutput |-> ceilWithBonus(baseOutput, totalBonusPercentage),
            appliedBonuses |-> appliedBonuses]

\* generator.calculateRevenueOutput(target); a behaviour makes one query.
calculateRevenueOutput(target) ==
  /\ lastCall.op = "new"
  /\ nCalls' = nCalls + 1
  /\ lastCall' = [revenue |-> revenueOutput(buildings, target)]
                   @@ Call("calculateRevenueOutput", target, Building[target].id,
                           Pos(0, 0), TRUE, NoPlacement)
  /\ UNCHANGED <<config, tiles, plots, buildings, buildingInventory, position>>

\* generator.calculateBonusOutput(target)
calculateBonusOutput(target) ==
  /\ lastCall.op = "new"
  /\ nCalls' = nCalls + 1
  /\ lastCall' = [bonus |-> bonusOutput(target)]
                   @@ Call("calculateBonusOutput", target, Building[target].id,
                           Pos(0, 0), TRUE, NoPlacement)
  /\ UNCHANGED <<config, tiles, plots, buildings, buildingInventory, position>>

\* The engine of the bonus calculations: three plots of 1x2 tiles in a row.
BonusConfig == [plotsX |-> 3, plotsY |-> 1, plotSize |-> [width |-> 1, height |-> 2]]

\* A freshly constructed engine and a pool of unplaced objects.
InitBonus ==
  /\ config = BonusConfig
  /\ tiles = createGridTiles(config)
  /\ plots = createGridPlots(config)
  /\ buildings = <<>>
  /\ buildingInventory = <<>>
  /\ position = [o \in BonusObjects |-> <<>>]
  /\ nCalls = 0
  /\ lastCall = Call("new", "", "", Pos(0, 0), TRUE, NoPlacement)

\* generator.placeBuilding(o, p) while the layout is set up, for an object
\* that is not in the building set; the call is not recorded in lastCall.
setUpBuilding(o, p) ==
  \E e \in {placeBuildingIn(Engine, o, p)} :
      /\ lastCall.op = "new"
      /\ o \notin TrackedObjects
      /\ tiles' = e.tiles
      /\ buildings' = e.buildings
      /\ buildingInventory' = e.buildingInventory
      /\ position' = e.position
      /\ UNCHANGED <<config, plots, lastCall, nCalls>>

\* The ids handed to removeBuilding while the layout is set up.
TakenDownIds == {Building["lake"].id}

\* generator.removeBuilding(id) while the layout is set up.
takeDownBuilding(id) ==
  \E e \in {removeBuildingIn(Engine, id)} :
      /\ lastCall.op = "new"
      /\ id \in DOMAIN buildings
      /\ tiles' = e.tiles
      /\ buildings' = e.buildings
      /\ buildingInventory' = e.buildingInventory
      /\ position' = e.position
      /\ UNCHANGED <<config, plots, lastCall, nCalls>>

NextBonus ==
  \/ \E o \in BonusObjects, p \in PlotPositions(config) : setUpBuilding(o, p)
  \/ \E id \in TakenDownIds : takeDownBuilding(id)
  \/ \E target \in BonusObjects : calculateRevenueOutput(target)
  \/ \E target \in BonusObjects : calculateBonusOutput(target)

SpecBonus == InitBonus /\ [][NextBonus]_vars

----------------------------------------------------------------------------
(* Vocabulary of the bonus properties *)

\* The channel a building produces on.
ProducingChannel(o) ==
  IF Building[o].type = "residential" THEN "passengers" ELSE "coins"

OtherChannel(ch) == IF ch = "coins" THEN "passengers" ELSE "coins"

\* The queried building is placed: in the building set, with a position.
QueriedPlaced(c) ==
  /\ c.op \in {"calculateRevenueOutput", "calculateBonusOutput"}
  /\ c.building \in TrackedObjects
  /\ position[c.building] # <<>>

\* What the query returned for the channel ch.
ChannelResult(c, ch) ==
  IF c.op = "calculateRevenueOutput" THEN c.revenue[ch]
  ELSE IF ch = ProducingChannel(c.building) THEN c.bonus
  ELSE [baseOutput |-> 0, totalBonusPercentage |-> 0, finalOutput |-> 0,
        appliedBonuses |-> {}]

RECURSIVE SumOfPercentages(_)
SumOfPercentages(sources) ==
  IF sources = {} THEN 0
  ELSE LET source == CHOOSE x \in sources : TRUE
       IN  SumOfPercentages(sources \ {source}) + Building[source].bonus[1].percentage

\* The distance between two tiles in a neighbourhood type.
Distance(p, q, neighborhoodType) ==
  IF neighborhoodType = "moore"
  THEN (IF Abs(p.x - q.x) >= Abs(p.y - q.y) THEN Abs(p.x - q.x) ELSE Abs(p.y - q.y))
  ELSE Abs(p.x - q.x) + Abs(p.y - q.y)

\* The sources that qualify for the target t.
QualifyingSources(t) ==
  {s \in BonusObjects :
     /\ s \in TrackedObjects
     /\ Building[s].type = "decoration"
     /\ Building[s].bonus # <<>>
     /\ position[s] # <<>>
     /\ Building[s].id # Building[t].id
     /\ Building[s].bonus[1].type = ProducingChannel(t)
     /\ \E p \in TilesOf(t), q \in TilesOf(s) :
           Distance(p, q, Building[s].bonus[1].neighborhoodType)
             <= Building[s].bonus[1].radius}

----------------------------------------------------------------------------
(* C18 *)

\* C18: for a placed building with base output b on its producing channel
\* and applied sources of percentages p1..pn, the total bonus percentage is
\* P = p1 + ... + pn and the final output is the ceiling of b*(100+P)/100,
\* and 0 when b is 0.
C18_CeilingOfBonus ==
  QueriedPlaced(lastCall) =>
    LET r == ChannelResult(lastCall, ProducingChannel(lastCall.building))
        b == r.baseOutput
        P == SumOfPercentages(r.appliedBonuses)
    IN  /\ r.totalBonusPercentage = P
        /\ r.finalOutput = (b * (100 + P) + 99) \div 100
        /\ b = 0 => r.finalOutput = 0

----------------------------------------------------------------------------
(* C19 *)

\* The building set without the bonus sources of another channel than ch.
WithoutSourcesOfOtherChannels(ch) ==
  [id \in {i \in DOMAIN buildings :
             \/ Building[buildings[i]].bonus = <<>>
             \/ Building[buildings[i]].bonus[1].type = ch} |-> buildings[id]]

\* C19: for a placed building calculateRevenueOutput gives a nonzero base or
\* final output on at most one channel, passengers for a residential
\* building and coins for a commercial building or a decoration; the other
\* channel has base 0, bonus percentage 0 and final output 0; and the whole
\* result is what it would be without the bonus sources of another channel
\* than the one the building produces on.
C19_OneChannel ==
  (QueriedPlaced(lastCall) /\ lastCall.op = "calculateRevenueOutput") =>
    LET t == lastCall.building
        produced == IF Building[t].type = "residential" THEN "passengers" ELSE "coins"
        other == lastCall.revenue[OtherChannel(produced)]
    IN  /\ Building[t].type \in {"residential", "commercial", "decoration"}
        /\ other.baseOutput = 0
        /\ other.totalBonusPercentage = 0
        /\ other.finalOutput = 0
        /\ lastCall.revenue
             = revenueOutput(WithoutSourcesOfOtherChannels(produced), t)

\* The cottage, with the coin source lake beside it and the passenger source
\* terminal in reach, was queried.
C19_Witness ==
  /\ QueriedPlaced(lastCall)
  /\ lastCall.op = "calculateRevenueOutput"
  /\ lastCall.building = "cottage"
  /\ "lake" \in TrackedObjects
  /\ \E p \in TilesOf("cottage"), q \in TilesOf("lake") : Distance(p, q, "manhattan") = 1
  /\ lastCall.revenue["passengers"].appliedBonuses = {"terminal"}
  /\ lastCall.revenue["passengers"].finalOutput > 50
  /\ lastCall.revenue["coins"].finalOutput = 0

----------------------------------------------------------------------------
(* C20 *)

\* C20: a building S contributes its bonus percentage to a placed target T
\* exactly when S is in the building set, is a decoration with a bonus and a
\* position, its id differs from T's, its bonus channel is the channel T
\* produces on, and some tile of T is within S's radius of some tile of S,
\* by max(|dx|,|dy|) for moore and |dx|+|dy| for manhattan.
C20_QualifyingSources ==
  QueriedPlaced(lastCall) =>
    LET t == lastCall.building
        produced == ChannelResult(lastCall, ProducingChannel(t))
        other == ChannelResult(lastCall, OtherChannel(ProducingChannel(t)))
    IN  /\ \A s \in BonusObjects :
              s \in produced.appliedBonuses \cup other.appliedBonuses
                <=> s \in QualifyingSources(t)
        /\ other.appliedBonuses = {}
        /\ produced.totalBonusPercentage = SumOfPercentages(QualifyingSources(t))

\* The shop was queried with the fountain in reach and the lake diagonally
\* beside it: within one tile by moore, but the lake is manhattan and
\* contributes nothing.
C20_Witness ==
  /\ QueriedPlaced(lastCall)
  /\ lastCall.op = "calculateRevenueOutput"
  /\ lastCall.building = "shop"
  /\ lastCall.revenue["coins"].appliedBonuses = {"fountain"}
  /\ "lake" \in TrackedObjects
  /\ \A p \in TilesOf("shop"), q \in TilesOf("lake") :
        Distance(p, q, "moore") = 1 /\ Distance(p, q, "manhattan") = 2

----------------------------------------------------------------------------
(* The strategy search (LayoutController.aiOptimizeLayout,                 *)
(* src/data/buildings.ts, and AILayoutOptimizer.optimizeLayout,            *)
(* src/unnamed/part_004)                                                   *)
(*                                                                         *)
(* A request names templates with counts.  The controller expands them to  *)
(* instance objects, hands the same objects to five optimizeLayout runs,   *)
(* each on an engine of its own with the roads of one strategy, and picks  *)
(* one of the five results.                                                *)

\* The values `from`, `from + by`, ... below `below`, as a for loop visits them.
Steps(from, below, by) ==
  IF below <= from THEN <<>>
  ELSE [k \in 1..((below - from + by - 1) \div by) |-> from + (k - 1) * by]

\* The concatenation of a sequence of sequences.
RECURSIVE Concat(_)
Concat(lists) ==
  IF lists = <<>> THEN <<>>
  ELSE lists[1] \o Concat(Tail(lists))

\* The positions that one loop pushes, one per value it visits.
Pushed(values, at(_)) ==
  IF values = <<>> THEN <<>>
  ELSE [k \in 1..Len(values) |-> at(values[k])]

TotalWidth(c) == c.plotsX * c.plotSize.width

TotalHeight(c) == c.plotsY * c.plotSize.height

generateCentralCrossRoads(c) ==
  LET centerX == TotalWidth(c) \div 2
      centerY == TotalHeight(c) \div 2
      vertical == Pushed(Steps(1, TotalHeight(c), 1), LAMBDA y : Pos(centerX, y))
      horizontal == Pushed(SelectSeq(Steps(0, TotalWidth(c), 1),
                                     LAMBDA x : x # centerX),
                           LAMBDA x : Pos(x, centerY))
  IN  [positions |-> vertical \o horizontal]

generateGridRoadNetwork(c) ==
  LET vertical ==
        Concat(Pushed(Steps(c.plotSize.width - 1, TotalWidth(c), c.plotSize.width),
                      LAMBDA x : Pushed(Steps(1, TotalHeight(c), 1),
                                        LAMBDA y : Pos(x, y))))
      horizontal ==
        Concat(Pushed(Steps(c.plotSize.height - 1, TotalHeight(c), c.plotSize.height),
                      LAMBDA y : Pushed(Steps(0, TotalWidth(c), 1),
                                        LAMBDA x : Pos(x, y))))
  IN  [positions |-> vertical \o horizontal]

addHorizontalRoad(startX, endX, y) ==
  Pushed(Steps(startX, endX + 1, 1), LAMBDA x : Pos(x, y))

addVerticalRoad(x, startY, endY) ==
  Pushed(Steps(startY, endY + 1, 1), LAMBDA y : Pos(x, y))

generateSinglePlotBorder(plotX, plotY, c) ==
  LET startX == plotX * c.plotSize.width
      startY == plotY * c.plotSize.height
      endX == startX + c.plotSize.width - 1
      endY == startY + c.plotSize.height - 1
  IN  (IF startY > 0 THEN addHorizontalRoad(startX, endX, startY) ELSE <<>>)
      \o (IF endY < TotalHeight(c) - 1
          THEN addHorizontalRoad(startX, endX, endY) ELSE <<>>)
      \o addVerticalRoad(startX, startY + 1, endY - 1)
      \o (IF endX < TotalWidth(c) - 1
          THEN addVerticalRoad(endX, startY + 1, endY - 1) ELSE <<>>)

generateBorderRoads(c) ==
  [positions |->
     Concat(Pushed(Steps(0, c.plotsY, 1),
                   LAMBDA plotY :
                     Concat(Pushed(Steps(0, c.plotsX, 1),
                                   LAMBDA plotX :
                                     generateSinglePlotBorder(plotX, plotY, c)))))]

generateMinimalRoadNetwork(c) ==
  LET centerX == TotalWidth(c) \div 2
      vertical == Pushed(Steps(1, TotalHeight(c), 2), LAMBDA y : Pos(centerX, y))
      row(plotY) ==
        LET y == plotY * c.plotSize.height + (c.plotSize.height \div 2)
        IN  IF y > 0 /\ y < TotalHeight(c)
            THEN Pushed(SelectSeq(Steps(0, TotalWidth(c), 2),
                                  LAMBDA x : x # centerX),
                        LAMBDA x : Pos(x, y))
            ELSE <<>>
      horizontal == Concat(Pushed(Steps(0, c.plotsY, 2), row))
  IN  [positions |-> vertical \o horizontal]

\* The optional roadPlacements argument of the five optimizeLayout calls of
\* generateMultipleLayouts, in the order of the calls.
StrategyRoads(c) ==
  << <<>>,
     <<generateCentralCrossRoads(c)>>,
     <<generateGridRoadNetwork(c)>>,
     <<generateBorderRoads(c)>>,
     <<generateMinimalRoadNetwork(c)>> >>

\* The engine state after generator.placeRoad(p).  The tile copies of the
\* plots are not part of an engine record: nothing the search calls reads them.
placeRoadIn(e, p) ==
  IF placeRoadResult(p) THEN [e EXCEPT !.tiles[p.y][p.x] = RoadTile] ELSE e

RECURSIVE placeRoadsIn(_, _, _)
placeRoadsIn(engine, positions, k) ==
  IF k > Len(positions) THEN engine
  ELSE The({ placeRoadsIn(placeRoadIn(e, positions[k]), positions, k + 1)
           : e \in {engine} })

(* The revenue calculation on an explicit engine state *)

isBuildingWithinRadiusIn(e, target, source, radius, neighborhoodType) ==
  IF e.position[target] = <<>> \/ e.position[source] = <<>> THEN FALSE
  ELSE \E targetPos \in Rect(e.position[target][1], Fields(target).size),
          sourcePos \in Rect(e.position[source][1], Fields(source).size) :
          isWithinRadius(targetPos, sourcePos, radius, neighborhoodType)

shouldApplyBonusIn(e, target, source, outputType) ==
  /\ Fields(source).bonus # <<>>
  /\ e.position[source] # <<>>
  /\ Fields(source).id # Fields(target).id
  /\ Fields(source).bonus[1].type = outputType
  /\ isBuildingWithinRadiusIn(e, target, source, Fields(source).bonus[1].radius,
                              Fields(source).bonus[1].neighborhoodType)

calculateBonusesForTypeIn(e, target, outputType) ==
  IF ~buildingProvidesOutput(Fields(target), outputType) THEN {}
  ELSE {source \in {e.buildings[id] : id \in DOMAIN e.buildings} :
          /\ Fields(source).type = "decoration"
          /\ shouldApplyBonusIn(e, target, source, outputType)}

\* calculateRevenueOutput(target) for a building that has a position.
calculateRevenueOutputIn(e, target) ==
  [outputType \in OutputTypes |->
     calculateTypeRevenue(target, outputType, revenueBase(Fields(target)),
                          calculateBonusesForTypeIn(e, target, outputType))]

\* The loop of calculateTotalRevenue over the entries of the building set;
\* every building of the set has a position.
RECURSIVE calculateTotalRevenueOver(_, _, _)
calculateTotalRevenueOver(e, ids, totals) ==
  IF ids = {} THEN totals
  ELSE The({ calculateTotalRevenueOver(e, ids \ {id},
               [totalCoinsRevenue |->
                  totals.totalCoinsRevenue + revenueResult.coins.finalOutput,
                totalPassengersRevenue |->
                  totals.totalPassengersRevenue + revenueResult.passengers.finalOutput])
           : id \in {CHOOSE x \in ids : TRUE},
             revenueResult \in {calculateRevenueOutputIn(
                                  e, e.buildings[CHOOSE x \in ids : TRUE])} })

\* calculateTotalRevenue that leaves the decorations out of the loop.
calculateTotalRevenueWithoutDecorations(e) ==
  calculateTotalRevenueOver(
    e, {id \in DOMAIN e.buildings : Fields(e.buildings[id]).type # "decoration"},
    [totalCoinsRevenue |-> 0, totalPassengersRevenue |-> 0])

calculateTotalRevenue(e) ==
  calculateTotalRevenueOver(e, DOMAIN e.buildings,
                            [totalCoinsRevenue |-> 0, totalPassengersRevenue |-> 0])

(* validateGrid *)

\* The elements of a set of strings as a sequence.
RECURSIVE Listed(_)
Listed(S) ==
  IF S = {} THEN <<>>
  ELSE LET x == CHOOSE y \in S : TRUE IN <<x>> \o Listed(S \ {x})

CeilDiv(n, d) == (n + d - 1) \div d

getPlotCoordinates(plot) ==
  Pos(plot.position.x \div 4, (plot.position.y - 1) \div 4)

\* generator.validateGrid() on the engine e of configuration c with plots pl.
\* The messages about buildings come in the order of the building set, which
\* an engine record does not keep; they are listed in an arbitrary order.
validateGridIn(c, pl, e) ==
  LET plotErrors ==
        SelectSeq([i \in 1..Len(pl) |->
                     IF checkPlotNeighbors(getPlotCoordinates(pl[i]).x,
                                           getPlotCoordinates(pl[i]).y,
                                           CeilDiv(GridWidth(c), 4),
                                           CeilDiv(GridHeight(c) - 1, 4))
                     THEN ""
                     ELSE "Plot " \o pl[i].id \o " has no neighbors"],
                  LAMBDA m : m # "")
      hasInfiniteRoad ==
        \A x \in 0..(GridWidth(c) - 1) : e.tiles[0][x].type = "road"
      roadErrors ==
        IF hasInfiniteRoad THEN <<>>
        ELSE <<"Infinite road at Y = 0 is not properly initialized">>
      buildingErrors ==
        Listed({ "Building " \o Fields(e.buildings[id]).name \o " at ("
                   \o ToString(e.position[e.buildings[id]][1].x) \o ", "
                   \o ToString(e.position[e.buildings[id]][1].y)
                   \o ") requires road access but doesn't have it"
                 : id \in {i \in DOMAIN e.buildings :
                             /\ Fields(e.buildings[i]).requiresRoad
                             /\ e.position[e.buildings[i]] # <<>>
                             /\ ~hasRoadAccessIn(e.tiles, Fields(e.buildings[i]),
                                                 e.position[e.buildings[i]][1])} })
      errors == plotErrors \o roadErrors \o buildingErrors
  IN  [isValid |-> Len(errors) = 0, errors |-> errors]

validateGrid == validateGridIn(config, plots, Engine)

(* optimizeLayout *)

\* The message of the error the constructor throws: that of the first plot,
\* in construction order, without a neighbour.
createGridError(c) ==
  LET i == CHOOSE k \in 1..(c.plotsX * c.plotsY) :
             /\ createPlotThrows(c, (k - 1) % c.plotsX, (k - 1) \div c.plotsX)
             /\ \A j \in 1..(k - 1) :
                   ~createPlotThrows(c, (j - 1) % c.plotsX, (j - 1) \div c.plotsX)
  IN  "Plot at (" \o ToString((i - 1) % c.plotsX) \o ", "
        \o ToString((i - 1) \div c.plotsX) \o ") has no neighbors in any direction"

\* new LayoutGenerator(c) while the position fields of the building objects
\* hold `heap`; c is constructible.
newLayoutGenerator(c, heap) ==
  [tiles |-> createGridTiles(c), buildings |-> <<>>,
   buildingInventory |-> <<>>, position |-> heap]

\* "Set up road network": the custom roads, when there are any.
setUpRoadNetwork(generator, roadPlacements) ==
  IF roadPlacements # <<>> /\ Len(roadPlacements[1].positions) > 0
  THEN placeRoadsIn(generator, roadPlacements[1].positions, 1)
  ELSE generator

\* The rest of the try block, from the placement on.
optimizeLayoutFrom(c, input, generator) ==
  The({ The({ [result |-> [success |-> TRUE,
                           placedBuildings |-> run.placed,
                           failedBuildings |-> run.failed,
                           totalCoinsRevenue |-> revenueStats.totalCoinsRevenue,
                           totalPassengersRevenue |->
                             revenueStats.totalPassengersRevenue,
                           validation |-> validateGridIn(c, plots, run.engine)],
               heap |-> run.engine.position,
               grid |-> generator.tiles,
               engine |-> run.engine]
            : revenueStats \in {calculateTotalRevenue(run.engine)} })
      : run \in {optimizePlacementFrom(generator, input, 1, <<>>, <<>>, <<>>)} })

\* optimizeLayout whose catch block reports no failed building.
optimizeLayoutEmptyFailure(c, input, roadPlacements, heap) ==
  IF createGridThrows(c)
  THEN [result |-> [success |-> FALSE,
                    placedBuildings |-> <<>>,
                    failedBuildings |-> <<>>,
                    totalCoinsRevenue |-> 0,
                    totalPassengersRevenue |-> 0,
                    validation |-> [isValid |-> FALSE,
                                    errors |-> <<createGridError(c)>>]],
        heap |-> heap, grid |-> <<>>, engine |-> <<>>]
  ELSE The({ optimizeLayoutFrom(c, input, generator)
           : generator \in {setUpRoadNetwork(newLayoutGenerator(c, heap),
                                             roadPlacements)} })

\* AILayoutOptimizer.optimizeLayout(c, input, roadPlacements), called while
\* the position fields of the building objects hold `heap`.  It returns the
\* LayoutOptimizationResult (without its per-hour figures, bonus analysis and
\* grid picture) and leaves the fields as `heap` of the outcome; `grid` is
\* the tiles of its engine when the placement began, `engine` its engine at
\* the end.  The engine is made of the configuration c = config, whose plots
\* the variable plots holds.
optimizeLayout(c, input, roadPlacements, heap) ==
  IF createGridThrows(c)
  THEN [result |-> [success |-> FALSE,
                    placedBuildings |-> <<>>,
                    failedBuildings |-> input,
                    totalCoinsRevenue |-> 0,
                    totalPassengersRevenue |-> 0,
                    validation |-> [isValid |-> FALSE,
                                    errors |-> <<createGridError(c)>>]],
        heap |-> heap, grid |-> <<>>, engine |-> <<>>]
  ELSE The({ optimizeLayoutFrom(c, input, generator)
           : generator \in {setUpRoadNetwork(newLayoutGenerator(c, heap),
                                             roadPlacements)} })

\* The loop that generateMultipleLayouts unrolls: strategy k and the later
\* ones.  outcomes keeps what each optimizeLayout call returned and left.
RECURSIVE generateLayoutsFrom(_, _, _, _, _)
generateLayoutsFrom(c, input, k, heap, outcomes) ==
  IF k > Len(StrategyRoads(c)) THEN outcomes
  ELSE The({ generateLayoutsFrom(c, input, k + 1, outcome.heap,
                                 Append(outcomes, outcome))
           : outcome \in {optimizeLayout(c, input, StrategyRoads(c)[k], heap)} })

generateMultipleLayouts(c, input, heap) ==
  generateLayoutsFrom(c, input, 1, heap, <<>>)

\* The reduce of findBestLayout from attempt k on; best is the index of the
\* attempt held so far.
RECURSIVE reduceBestLatestOnTies(_, _, _)
reduceBestLatestOnTies(attempts, k, best) ==
  IF k > Len(attempts) THEN best
  ELSE reduceBestLatestOnTies(
         attempts, k + 1,
         IF /\ attempts[k].success
            /\ attempts[k].totalCoinsRevenue + attempts[k].totalPassengersRevenue
                 >= attempts[best].totalCoinsRevenue
                      + attempts[best].totalPassengersRevenue
         THEN k ELSE best)

RECURSIVE reduceBest(_, _, _)
reduceBest(attempts, k, best) ==
  IF k > Len(attempts) THEN best
  ELSE reduceBest(
         attempts, k + 1,
         IF /\ attempts[k].success
            /\ attempts[k].totalCoinsRevenue + attempts[k].totalPassengersRevenue
                 > attempts[best].totalCoinsRevenue
                     + attempts[best].totalPassengersRevenue
         THEN k ELSE best)

\* findBestLayout, as the index of the attempt it returns; 0 stands for the
\* placeholder it returns for an empty list of attempts.
findBestLayout(attempts) ==
  IF attempts = <<>> THEN 0 ELSE reduceBest(attempts, 1, 1)

\* validatePlotConfiguration that stops at the first field it rejects.
validatePlotConfigurationFirstError(plotConfig) ==
  LET errors ==
        IF plotConfig.plotsX <= 0
        THEN <<"plotsX must be greater than 0">>
        ELSE IF plotConfig.plotsY <= 0
        THEN <<"plotsY must be greater than 0">>
        ELSE IF plotConfig.plotSize.width <= 0
        THEN <<"plotSize width must be greater than 0">>
        ELSE IF plotConfig.plotSize.height <= 0
        THEN <<"plotSize height must be greater than 0">>
        ELSE <<>>
  IN  [isValid |-> Len(errors) = 0, errors |-> errors]

validatePlotConfiguration(plotConfig) ==
  LET errors ==
        (IF plotConfig.plotsX <= 0
         THEN <<"plotsX must be greater than 0">> ELSE <<>>)
        \o (IF plotConfig.plotsY <= 0
            THEN <<"plotsY must be greater than 0">> ELSE <<>>)
        \o (IF plotConfig.plotSize.width <= 0
            THEN <<"plotSize width must be greater than 0">> ELSE <<>>)
        \o (IF plotConfig.plotSize.height <= 0
            THEN <<"plotSize height must be greater than 0">> ELSE <<>>)
  IN  [isValid |-> Len(errors) = 0, errors |-> errors]

\* expandBuildingInstances: for every entry of the request whose name has a
\* row, `count` fresh objects with the ids `${name}_1` ... `${name}_${count}`.
expandBuildingInstances(request, rows) ==
  Concat([k \in 1..Len(request) |->
            IF \E template \in rows : template.name = request[k].name
            THEN [i \in 1..request[k].count |->
                    InstanceHandle(k, request[k].name, i)]
            ELSE <<>>])

\* The names a request may carry: those of the rows and one without a row.
RequestNames == {template.name : template \in dbBuildings} \cup {"Hangar"}

\* The `buildings` arrays that ask for `budget` instances at most: entries
\* { name, count } with count >= 1.  A name may occur in more than one entry.
RECURSIVE RequestsWithin(_)
RequestsWithin(budget) ==
  {<<>>} \cup
  UNION { { <<[name |-> name, count |-> count]>> \o rest :
              name \in RequestNames, rest \in RequestsWithin(budget - count) } :
          count \in 1..budget }

\* The requests: validateAIOptimizeRequest turns an empty array down.
Requests == RequestsWithin(MaxInstances) \ {<<>>}

\* The plotConfiguration of the requests: one that validation rejects, one
\* from which no engine can be constructed, and constructible ones.
SearchConfigs ==
  { [plotsX |-> 0, plotsY |-> 1, plotSize |-> [width |-> 2, height |-> 2]],
    [plotsX |-> 1, plotsY |-> 1, plotSize |-> [width |-> 2, height |-> 2]],
    [plotsX |-> 2, plotsY |-> 1, plotSize |-> [width |-> 1, height |-> 2]],
    [plotsX |-> 1, plotsY |-> 2, plotSize |-> [width |-> 2, height |-> 2]],
    [plotsX |-> 2, plotsY |-> 2, plotSize |-> [width |-> 2, height |-> 1]] }

\* Before the request is served: no engine and no building object exists.
\* plots holds the plots every engine of the request's configuration has.
InitSearch ==
  /\ config \in SearchConfigs
  /\ plots = IF validatePlotConfiguration(config).isValid /\ ~createGridThrows(config)
             THEN createGridPlots(config) ELSE <<>>
  /\ tiles = <<>>
  /\ buildings = <<>>
  /\ buildingInventory = <<>>
  /\ position = <<>>
  /\ nCalls = 0
  /\ lastCall = Call("", "", "", Pos(0, 0), FALSE, NoPlacement)

\* The elements of a sequence.
Elements(list) == {list[k] : k \in DOMAIN list}

\* LayoutController.aiOptimizeLayout for the body { plotConfiguration: config,
\* buildings: request }: 400 for a configuration that validation rejects, 404
\* when no name has a row, and otherwise the five attempts and the index of
\* the one the response carries.  runs keeps, for every attempt, the grid its
\* placement began on and the position fields as the attempt left them.  The
\* engine variables hold the engine of the last attempt.
aiOptimizeLayout(request) ==
  /\ lastCall.op = ""
  /\ \E expandedBuildings \in {expandBuildingInstances(request, dbBuildings)} :
       \E status \in {IF ~validatePlotConfiguration(config).isValid THEN 400
                      ELSE IF \A k \in DOMAIN request :
                                \A template \in dbBuildings :
                                   template.name # request[k].name
                           THEN 404
                           ELSE 200} :
         \E outcomes \in {IF status = 200
                          THEN generateMultipleLayouts(
                                 config, expandedBuildings,
                                 [h \in Elements(expandedBuildings) |-> <<>>])
                          ELSE <<>>} :
             /\ nCalls' = nCalls + 1
             /\ lastCall' =
                  [request |-> request,
                   status |-> status,
                   expandedBuildings |-> expandedBuildings,
                   attempts |-> [k \in DOMAIN outcomes |-> outcomes[k].result],
                   runs |-> [k \in DOMAIN outcomes |->
                               [grid |-> outcomes[k].grid,
                                position |-> [h \in Elements(expandedBuildings) |->
                                                outcomes[k].heap[h]]]],
                   best |-> findBestLayout([k \in DOMAIN outcomes |-> outcomes[k].result])]
                    @@ Call("aiOptimizeLayout", "", "", Pos(0, 0), status = 200, NoPlacement)
             /\ IF status = 200
                THEN position' = [h \in Elements(expandedBuildings) |->
                                    outcomes[Len(outcomes)].heap[h]]
                ELSE position' = position
             /\ IF status = 200 /\ outcomes[Len(outcomes)].result.success
                THEN /\ tiles' = outcomes[Len(outcomes)].engine.tiles
                     /\ buildings' = outcomes[Len(outcomes)].engine.buildings
                     /\ buildingInventory' = outcomes[Len(outcomes)].engine.buildingInventory
                ELSE UNCHANGED <<tiles, buildings, buildingInventory>>
             /\ UNCHANGED <<config, plots>>

NextSearch == \E request \in Requests : aiOptimizeLayout(request)

SpecSearch == InitSearch /\ [][NextSearch]_vars

\* A request that was served with the five attempts.
Searched == lastCall.op = "aiOptimizeLayout" /\ lastCall.status = 200

----------------------------------------------------------------------------
(* C21 *)

\* What findBestLayout compares: the sum of the two revenue totals.
TotalRevenue(attempt) ==
  attempt.totalCoinsRevenue + attempt.totalPassengersRevenue

\* C21: of the five attempts in strategy order, the search returns a
\* successful one whose totalCoinsRevenue + totalPassengersRevenue is the
\* largest among the successful attempts, the earliest of them on a tie,
\* whenever an attempt succeeded; when all failed it returns the first.
C21_BestLayout ==
  Searched =>
    LET attempts == lastCall.attempts
        successful == {k \in DOMAIN attempts : attempts[k].success}
        best == lastCall.best
    IN  /\ best \in DOMAIN attempts
        /\ successful # {} =>
             /\ best \in successful
             /\ \A k \in successful :
                   /\ TotalRevenue(attempts[k]) <= TotalRevenue(attempts[best])
                   /\ TotalRevenue(attempts[k]) = TotalRevenue(attempts[best])
                        => best <= k
        /\ successful = {} => best = 1

\* A search whose first strategy is beaten and whose best total is reached by
\* two strategies.
C21_Witness ==
  /\ Searched
  /\ lastCall.best > 1
  /\ lastCall.attempts[lastCall.best].success
  /\ \E k \in DOMAIN lastCall.attempts :
        /\ k > lastCall.best
        /\ lastCall.attempts[k].success
        /\ TotalRevenue(lastCall.attempts[k])
             = TotalRevenue(lastCall.attempts[lastCall.best])

----------------------------------------------------------------------------
(* C22 *)

\* C22: the five strategy runs share no mutable state.  When the search has
\* ended, the position on every building of an attempt's placedBuildings is
\* still the one the attempt's own engine gave it, and the buildings of an
\* attempt's failedBuildings have no position.
C22_IsolatedAttempts ==
  Searched =>
    \A k \in DOMAIN lastCall.attempts :
       /\ \A h \in Elements(lastCall.attempts[k].placedBuildings) :
             position[h] = lastCall.runs[k].position[h]
       /\ \A h \in Elements(lastCall.attempts[k].failedBuildings) :
             position[h] = <<>>

----------------------------------------------------------------------------
(* C23 *)

\* The road tiles below row 0 of a grid.
RoadsOf(grid) ==
  {p \in PlotPositions(config) : grid[p.y][p.x].type = "road"}

\* C23: optimizeLayout never lets an engine error through.  When the grid
\* cannot be constructed it returns success = false, no placed building,
\* every input building as failed, zero revenues and a validation that is
\* invalid with the one message of the error; so the search always has
\* exactly five results, and they are those of the five strategies in order.
C23_FiveResults ==
  Searched =>
    /\ Len(lastCall.attempts) = 5
    /\ createGridThrows(config) =>
         \A k \in 1..5 :
            lastCall.attempts[k] =
              [success |-> FALSE,
               placedBuildings |-> <<>>,
               failedBuildings |-> lastCall.expandedBuildings,
               totalCoinsRevenue |-> 0,
               totalPassengersRevenue |-> 0,
               validation |->
                 [isValid |-> FALSE,
                  errors |-> <<"Plot at (0, 0) has no neighbors in any direction">>]]
    /\ ~createGridThrows(config) =>
         \A k \in 1..5 :
            /\ lastCall.attempts[k].success
            /\ RoadsOf(lastCall.runs[k].grid)
                 = IF StrategyRoads(config)[k] = <<>> THEN {}
                   ELSE Elements(StrategyRoads(config)[k][1].positions)
                          \cap PlotPositions(config)

\* A search on a configuration of one plot, which has no neighbour, for two
\* buildings or more.
C23_Witness ==
  /\ Searched
  /\ createGridThrows(config)
  /\ Len(lastCall.expandedBuildings) >= 2
  /\ Len(lastCall.attempts) = 5
  /\ \A k \in 1..5 : ~lastCall.attempts[k].success

----------------------------------------------------------------------------
(* C24: the validation of a plot configuration *)

\* The largest value of a field of the configurations validated below; the
\* smallest is -1.
MaxField == 2

\* Any four integers as a configuration; no engine exists yet.
InitValidate ==
  /\ config \in [plotsX : -1..MaxField, plotsY : -1..MaxField,
                 plotSize : [width : -1..MaxField, height : -1..MaxField]]
  /\ plots = <<>>
  /\ tiles = <<>>
  /\ buildings = <<>>
  /\ buildingInventory = <<>>
  /\ position = <<>>
  /\ nCalls = 0
  /\ lastCall = Call("", "", "", Pos(0, 0), FALSE, NoPlacement)

\* A call of AILayoutOptimizer.validatePlotConfiguration(config).
validatePlotConfigurationCall ==
  /\ lastCall.op = ""
  /\ \E validation \in {validatePlotConfiguration(config)} :
       /\ lastCall' = [validation |-> validation]
                        @@ Call("validatePlotConfiguration", "", "",
                                Pos(0, 0), validation.isValid, NoPlacement)
       /\ nCalls' = nCalls + 1
  /\ UNCHANGED <<config, tiles, plots, buildings, buildingInventory, position>>

NextValidate == validatePlotConfigurationCall

SpecValidate == InitValidate /\ [][NextValidate]_vars

\* The fields of the configuration that are not greater than 0.
NonPositiveFields ==
  {f \in {"plotsX", "plotsY"} : config[f] <= 0}
    \cup {f \in {"width", "height"} : config.plotSize[f] <= 0}

\* The message the validation gives for a field.
FieldMessage(f) ==
  CASE f = "plotsX" -> "plotsX must be greater than 0"
    [] f = "plotsY" -> "plotsY must be greater than 0"
    [] f = "width" -> "plotSize width must be greater than 0"
    [] f = "height" -> "plotSize height must be greater than 0"

\* C24: validatePlotConfiguration is valid exactly when the four fields are
\* all greater than 0; otherwise it returns one message for each field that
\* is not, all different, so that there are as many errors as such fields.
C24_ValidatePlotConfiguration ==
  lastCall.op = "validatePlotConfiguration" =>
    LET validation == lastCall.validation
    IN  /\ validation.isValid <=> NonPositiveFields = {}
        /\ Len(validation.errors) = Cardinality(NonPositiveFields)
        /\ Elements(validation.errors)
             = {FieldMessage(f) : f \in NonPositiveFields}
        /\ \A i, k \in DOMAIN validation.errors :
              i # k => validation.errors[i] # validation.errors[k]

\* A configuration with three fields that are not positive, validated.
C24_Witness ==
  /\ lastCall.op = "validatePlotConfiguration"
  /\ Cardinality(NonPositiveFields) = 3
  /\ Len(lastCall.validation.errors) = 3
  /\ ~lastCall.validation.isValid

----------------------------------------------------------------------------
(* C25: decorations on a single row of 4x4 plots *)

\* Single rows of 4x4 plots: of one plot, from which no engine can be
\* constructed, and of two.
RowConfigs ==
  { [plotsX |-> plotsX, plotsY |-> 1, plotSize |-> [width |-> 4, height |-> 4]]
    : plotsX \in 1..2 }

\* The names of the rows that are decorations with requiresRoad = false.
DecorationNames ==
  {template.name : template \in {row \in dbBuildings :
                                   row.type = "decoration" /\ ~row.requiresRoad}}

\* The requests whose names are those of such decorations, or have no row
\* and so give no building.
DecorationRequests ==
  {request \in Requests :
     \A k \in DOMAIN request :
        request[k].name \in DecorationNames \cup {"Hangar"}}

InitRow ==
  /\ config \in RowConfigs
  /\ plots = IF ~createGridThrows(config) THEN createGridPlots(config) ELSE <<>>
  /\ tiles = <<>>
  /\ buildings = <<>>
  /\ buildingInventory = <<>>
  /\ position = <<>>
  /\ nCalls = 0
  /\ lastCall = Call("", "", "", Pos(0, 0), FALSE, NoPlacement)

NextRow == \E request \in DecorationRequests : aiOptimizeLayout(request)

SpecRow == InitRow /\ [][NextRow]_vars

\* C25: on a single row of 4x4 plots, with a building list of decorations
\* that need no road only, the five strategy results report the same
\* totalCoinsRevenue and the same totalPassengersRevenue.
C25_SameTotals ==
  Searched =>
    \A j, k \in DOMAIN lastCall.attempts :
       /\ lastCall.attempts[j].totalCoinsRevenue
            = lastCall.attempts[k].totalCoinsRevenue
       /\ lastCall.attempts[j].totalPassengersRevenue
            = lastCall.attempts[k].totalPassengersRevenue

\* A search in which a bonus decoration touches another decoration under
\* one strategy and not under another, the roads having moved the latter.
C25_Witness ==
  /\ Searched
  /\ \A k \in 1..5 : lastCall.attempts[k].success
  /\ \E j, k \in 1..5 :
        \E source, target \in Elements(lastCall.expandedBuildings) :
           /\ Fields(source).bonus # <<>>
           /\ source # target
           /\ lastCall.runs[j].position[source] # <<>>
           /\ lastCall.runs[j].position[target] # <<>>
           /\ lastCall.runs[k].position[source] # <<>>
           /\ lastCall.runs[k].position[target] # <<>>
           /\ \E p \in Rect(lastCall.runs[j].position[target][1], Fields(target).size) :
                 isWithinRadius(p, lastCall.runs[j].position[source][1], 1, "manhattan")
           /\ \A p \in Rect(lastCall.runs[k].position[target][1], Fields(target).size) :
                 ~isWithinRadius(p, lastCall.runs[k].position[source][1], 1, "manhattan")

----------------------------------------------------------------------------
(* C26 *)

\* C26: for every configuration from which an engine can be constructed,
\* whatever the width and height of its plots, validateGrid on the engine
\* just constructed returns isValid = true and no error.
C26_FreshGridValid ==
  (lastCall.op = "new" /\ lastCall.result) =>
    /\ validateGrid.isValid
    /\ validateGrid.errors = <<>>

----------------------------------------------------------------------------
(* C27: workflows on an engine with 4x4 plots *)

WorkflowConfig ==
  [plotsX |-> 2, plotsY |-> 1, plotSize |-> [width |-> 4, height |-> 4]]

\* The objects and the positions of the workflows: a building that needs a
\* road, a decoration that needs none, and three positions of the first plot
\* of which (0, 2) and (1, 2) do not touch the road of row 0.
WorkflowObjects == {"house", "park"}

WorkflowPositions == {Pos(0, 2), Pos(1, 1), Pos(1, 2)}

\* An engine with 4x4 plots on which placeBuilding was called up to
\* MaxPrepared times.
InitWorkflow ==
  /\ config = WorkflowConfig
  /\ plots = createGridPlots(config)
  /\ \E calls \in UNION {[1..n -> WorkflowObjects \X WorkflowPositions] :
                           n \in 0..MaxPrepared} :
        \E e \in {placeBuildingsIn(
                    [tiles |-> createGridTiles(config),
                     buildings |-> <<>>,
                     buildingInventory |-> <<>>,
                     position |-> [o \in BuildingObjects |-> <<>>]],
                    calls, 1)} :
            /\ tiles = e.tiles
            /\ buildings = e.buildings
            /\ buildingInventory = e.buildingInventory
            /\ position = e.position
  /\ nCalls = 0
  /\ lastCall = Call("new", "", "", Pos(0, 0), TRUE, NoPlacement)

\* BuildingUtils.optimizePlacement(input, generator) as one call of a
\* workflow.
optimizePlacementCall(input) ==
  /\ Called
  /\ \E run \in {optimizePlacementFrom(Engine, input, 1, <<>>, <<>>, <<>>)} :
       /\ lastCall' = [input |-> input, placed |-> run.placed,
                       failed |-> run.failed, steps |-> run.steps]
                        @@ Call("optimizePlacement", "", "", Pos(0, 0), TRUE,
                                NoPlacement)
       /\ tiles' = run.engine.tiles
       /\ buildings' = run.engine.buildings
       /\ buildingInventory' = run.engine.buildingInventory
       /\ position' = [o \in BuildingObjects |-> run.engine.position[o]]
  /\ UNCHANGED <<config, plots>>

NextWorkflow ==
  \/ \E p \in WorkflowPositions : placeRoad(p)
  \/ \E o \in WorkflowObjects, p \in WorkflowPositions : placeBuilding(o, p)
  \/ \E o \in WorkflowObjects : removeBuilding(Building[o].id)
  \/ \E o \in WorkflowObjects : optimizePlacementCall(<<o>>)

SpecWorkflow == InitWorkflow /\ [][NextWorkflow]_vars

\* C27: through any sequence of placeRoad, placeBuilding, removeBuilding and
\* optimizePlacement calls on an engine with 4x4 plots, every building of the
\* building set that requires a road has a road tile next to its rectangle,
\* and validateGrid reports no road-access error.
C27_RoadAccessKept ==
  /\ \A id \in DOMAIN buildings :
        (Building[buildings[id]].requiresRoad /\ position[buildings[id]] # <<>>)
          => hasRoadAccess(Building[buildings[id]], position[buildings[id]][1])
  /\ validateGrid.isValid

----------------------------------------------------------------------------
(* C28 *)

\* C28: when optimizeLayout gets no roadPlacements, or an empty position
\* list, it generates a basic road network before it places the buildings:
\* the grid the placement begins on has road tiles below row 0.
C28_BasicRoadNetwork ==
  Searched =>
    \A k \in DOMAIN lastCall.attempts :
       ( /\ lastCall.attempts[k].success
         /\ \/ StrategyRoads(config)[k] = <<>>
            \/ StrategyRoads(config)[k][1].positions = <<>> )
         => RoadsOf(lastCall.runs[k].grid) # {}

----------------------------------------------------------------------------
(* C29 *)

\* C29: the building instances handed to the strategy search have pairwise
\* distinct ids, for every request list, those in which a name occurs in more
\* than one entry included.
C29_DistinctInstanceIds ==
  Searched =>
    \A i, k \in DOMAIN lastCall.expandedBuildings :
       i # k => Fields(lastCall.expandedBuildings[i]).id
                  # Fields(lastCall.expandedBuildings[k]).id

----------------------------------------------------------------------------
(* C30 *)

\* C30: in the central-cross strategy, once placeRoad has applied the
\* positions to a fresh grid, the column at the horizontal midpoint is road
\* on every row below row 0 (y from 1 to the grid height - 1), the row at the
\* vertical midpoint is road across the full width, and the position list
\* holds no position twice.
C30_CentralCross ==
  (Searched /\ lastCall.attempts[2].success) =>
    LET grid == lastCall.runs[2].grid
        positions == generateCentralCrossRoads(config).positions
        centerX == GridWidth(config) \div 2
        centerY == (GridHeight(config) - 1) \div 2
    IN  /\ \A y \in 1..(GridHeight(config) - 1) : grid[y][centerX].type = "road"
        /\ \A x \in 0..(GridWidth(config) - 1) : grid[centerY][x].type = "road"
        /\ \A i, k \in DOMAIN positions : i # k => positions[i] # positions[k]

----------------------------------------------------------------------------
(* C31 *)

\* Position p lies on an edge of plot that the per-plot-border strategy may
\* lay a road on: the top row unless the plot touches the road of row 0, the
\* bottom row unless it is the last row of the grid, the left column unless
\* it is the leftmost column of the grid, the right column unless it is the
\* rightmost.
OnAllowedEdge(p, plot) ==
  LET left == plot.position.x
      right == plot.position.x + plot.size.width - 1
      top == plot.position.y
      bottom == plot.position.y + plot.size.height - 1
  IN  /\ p.x \in left..right
      /\ p.y \in top..bottom
      /\ \/ p.y = top /\ top > 1
         \/ p.y = bottom /\ bottom < GridHeight(config) - 1
         \/ p.x = left /\ left > 0
         \/ p.x = right /\ right < GridWidth(config) - 1

\* C31: every road position of the per-plot-border strategy lies on the top
\* row, the bottom row, the left column or the right column of a plot of the
\* engine (whose plot rows start at y = 1); the top edge is left out for the
\* plots next to the road of row 0, and no road runs along an edge on the
\* outer boundary of the grid (leftmost column, rightmost column, last row).
C31_BorderRoads ==
  (Searched /\ lastCall.attempts[4].success) =>
    \A p \in Elements(generateBorderRoads(config).positions) :
       /\ lastCall.runs[4].grid[p.y][p.x].type = "road"
       /\ \E i \in DOMAIN plots : OnAllowedEdge(p, plots[i])

----------------------------------------------------------------------------
(* C32: the totals of calculateTotalRevenue *)

\* BuildingUtils.calculateTotalRevenue(generator) on the layout set up.
calculateTotalRevenueCall ==
  /\ lastCall.op = "new"
  /\ \E revenueStats \in {calculateTotalRevenue(Engine)} :
       lastCall' = [revenueStats |-> revenueStats]
                     @@ Call("calculateTotalRevenue", "", "", Pos(0, 0), TRUE,
                             NoPlacement)
  /\ nCalls' = nCalls + 1
  /\ UNCHANGED <<config, tiles, plots, buildings, buildingInventory, position>>

NextTotal ==
  \/ \E o \in BonusObjects, p \in PlotPositions(config) : setUpBuilding(o, p)
  \/ \E id \in TakenDownIds : takeDownBuilding(id)
  \/ calculateTotalRevenueCall

SpecTotal == InitBonus /\ [][NextTotal]_vars

\* The sum of amount[o] over the objects of a set.
RECURSIVE SumOver(_, _)
SumOver(objects, amount) ==
  IF objects = {} THEN 0
  ELSE LET o == CHOOSE x \in objects : TRUE
       IN  amount[o] + SumOver(objects \ {o}, amount)

FinalOutput(channel) ==
  [o \in TrackedObjects |-> revenueOutput(buildings, o)[channel].finalOutput]

RevenueField == [o \in TrackedObjects |-> Building[o].revenue]

\* The totals are the sums of the final outputs of each channel over the
\* buildings of the building set.
TotalsAreSums ==
  /\ lastCall.revenueStats.totalCoinsRevenue
       = SumOver(TrackedObjects, FinalOutput("coins"))
  /\ lastCall.revenueStats.totalPassengersRevenue
       = SumOver(TrackedObjects, FinalOutput("passengers"))

NoSourceInRange == \A t \in TrackedObjects : QualifyingSources(t) = {}

\* C32 as stated: calculateTotalRevenue returns the sums of the coin and of
\* the passenger final outputs over exactly the buildings of the building
\* set; when no bonus source is in range of any building the two totals
\* together are the sum of the revenue fields of the placed residential and
\* commercial buildings.
C32_TotalRevenueStated ==
  lastCall.op = "calculateTotalRevenue" =>
    /\ TotalsAreSums
    /\ NoSourceInRange =>
         lastCall.revenueStats.totalCoinsRevenue
           + lastCall.revenueStats.totalPassengersRevenue
             = SumOver({o \in TrackedObjects :
                          Building[o].type \in {"residential", "commercial"}},
                       RevenueField)

\* C32, amended: calculateTotalRevenue returns the sums of the coin and of
\* the passenger final outputs over exactly the buildings of the building
\* set; when no bonus source is in range of any building the two totals
\* together are the sum of the revenue fields of the placed residential and
\* commercial buildings and of the placed decorations that require a road.
C32_TotalRevenue ==
  lastCall.op = "calculateTotalRevenue" =>
    /\ TotalsAreSums
    /\ NoSourceInRange =>
         lastCall.revenueStats.totalCoinsRevenue
           + lastCall.revenueStats.totalPassengersRevenue
             = SumOver({o \in TrackedObjects :
                          \/ Building[o].type \in {"residential", "commercial"}
                          \/ Building[o].type = "decoration" /\ Building[o].requiresRoad},
                       RevenueField)

\* The totals of a layout with the cottage, the shop and the terminal, no
\* source in range of a building it applies to.
C32_Witness ==
  /\ lastCall.op = "calculateTotalRevenue"
  /\ {"cottage", "shop", "terminal"} \subseteq TrackedObjects
  /\ NoSourceInRange
  /\ lastCall.revenueStats.totalCoinsRevenue = 500
  /\ lastCall.revenueStats.totalPassengersRevenue = 50

----------------------------------------------------------------------------
(* C33 *)

\* The run began on an engine without buildings: the first building met no
\* building tile, or there was no building to handle and there is none now.
StartedWithoutBuildings ==
  LET first == IF lastCall.steps = <<>> THEN tiles ELSE lastCall.steps[1].tiles
  IN  \A y \in DOMAIN first : \A x \in DOMAIN first[y] :
         first[y][x].type # "building"

\* C33: after optimizePlacement on a freshly constructed engine, with input
\* buildings of pairwise distinct ids, the building set holds exactly the
\* buildings of the placed list (the same ids, as many), each with a
\* position, none of the failed buildings and no probe building.
C33_BuildingSetIsPlaced ==
  ( /\ lastCall.op = "optimizePlacement"
    /\ StartedWithoutBuildings
    /\ \A i, k \in DOMAIN lastCall.input :
          i # k => Building[lastCall.input[i]].id # Building[lastCall.input[k]].id )
    => /\ DOMAIN buildings = {Building[o].id : o \in Elements(lastCall.placed)}
       /\ Cardinality(DOMAIN buildings) = Len(lastCall.placed)
       /\ \A id \in DOMAIN buildings :
             /\ buildings[id] \in Elements(lastCall.placed)
             /\ Building[buildings[id]].id = id
             /\ position[buildings[id]] # <<>>
       /\ \A o \in Elements(lastCall.failed) : Building[o].id \notin DOMAIN buildings
       /\ TestId \notin DOMAIN buildings
       /\ \A y \in DOMAIN tiles : \A x \in DOMAIN tiles[y] :
             tiles[y][x].buildingId # TestId

\* A run on an engine without buildings that placed one building and failed
\* to place another.
C33_Witness ==
  /\ lastCall.op = "optimizePlacement"
  /\ StartedWithoutBuildings
  /\ Len(lastCall.placed) = 1
  /\ Len(lastCall.failed) = 1
  /\ lastCall.placed[1] # lastCall.failed[1]
  /\ DOMAIN buildings = {Building[lastCall.placed[1]].id}

----------------------------------------------------------------------------
(* C34 *)

\* C34: in every outcome that placeBuilding returns, hasRoadAccess equals
\* isValid: no outcome is invalid with road access, none valid without.
C34_AccessEqualsValid ==
  lastCall.op = "placeBuilding" =>
    /\ lastCall.placement.hasRoadAccess = lastCall.placement.isValid
    /\ lastCall.placement.isValid = lastCall.result

\* A placement turned down for an overlap at a position that has a road
\* tile next to it: the outcome reports no road access.
C34_Witness ==
  /\ lastCall.op = "placeBuilding"
  /\ ~lastCall.placement.isValid
  /\ lastCall.placement.plotId # ""
  /\ buildingFitsInPlot(Building[lastCall.building], lastCall.position,
                        plots[getPlotAtPosition(lastCall.position)])
  /\ hasOverlap(Building[lastCall.building], lastCall.position)
  /\ hasRoadAccess(Building[lastCall.building], lastCall.position)
  /\ ~lastCall.placement.hasRoadAccess

----------------------------------------------------------------------------
(* C35 *)

\* C35: through any sequence of placeRoad, placeBuilding and removeBuilding
\* calls, every tile inside the rectangle of every building of the building
\* set is a building tile with the id of that building, never a road or an
\* empty tile.
C35_RectanglesAreBuildingTiles ==
  \A id \in DOMAIN buildings :
     position[buildings[id]] # <<>> =>
       \A q \in TilesOf(buildings[id]) : tiles[q.y][q.x] = BuildingTile(id)

----------------------------------------------------------------------------
(* C36 *)

\* The plots a tile belongs to.
PlotsOf(p) == {i \in DOMAIN plots : p \in PlotTiles(plots[i])}

\* C36: in every constructed grid the plots tile the area below the road
\* row exactly: every tile with y >= 1 belongs to exactly one plot, no tile
\* of row 0 belongs to a plot, and no plot extends outside the grid.
C36_PlotsTileTheGrid ==
  (lastCall.op = "new" /\ lastCall.result) =>
    /\ \A y \in DOMAIN tiles : \A x \in DOMAIN tiles[y] :
          Cardinality(PlotsOf(Pos(x, y))) = IF y >= 1 THEN 1 ELSE 0
    /\ \A i \in DOMAIN plots :
          \A p \in PlotTiles(plots[i]) :
             p.y \in DOMAIN tiles /\ p.x \in DOMAIN tiles[p.y]

\* A grid of 2x3 plots of 3x2 tiles was constructed: 6 plots on 36 tiles
\* below row 0.
C36_Witness ==
  /\ lastCall.op = "new"
  /\ lastCall.result
  /\ config.plotsX = 2
  /\ config.plotsY = 3
  /\ config.plotSize = [width |-> 3, height |-> 2]
  /\ Cardinality(UNION {PlotTiles(plots[i]) : i \in DOMAIN plots}) = 36
  /\ Cardinality(PlotsOf(Pos(5, 6))) = 1

----------------------------------------------------------------------------
(* C37: findValidPositionsInPlot as a probe *)

\* Two plots of 2x2 tiles side by side.
ProbeConfig ==
  [plotsX |-> 2, plotsY |-> 1, plotSize |-> [width |-> 2, height |-> 2]]

\* An engine on which placeRoad was called for up to MaxRoads plot positions
\* and then placeBuilding up to MaxPrepared times.
InitProbe ==
  /\ config = ProbeConfig
  /\ \E roads \in {R \in SUBSET PlotPositions(config) : Cardinality(R) <= MaxRoads} :
        /\ plots = plotsWithRoads(config, roads)
        /\ \E calls \in UNION {[1..n -> BuildingObjects \X PlotPositions(config)] :
                                 n \in 0..MaxPrepared} :
              \E e \in {placeBuildingsIn(
                          [tiles |-> tilesWithRoads(config, roads),
                           buildings |-> <<>>,
                           buildingInventory |-> <<>>,
                           position |-> [o \in BuildingObjects |-> <<>>]],
                          calls, 1)} :
                  /\ tiles = e.tiles
                  /\ buildings = e.buildings
                  /\ buildingInventory = e.buildingInventory
                  /\ position = e.position
  /\ nCalls = 0
  /\ lastCall = Call("new", "", "", Pos(0, 0), TRUE, NoPlacement)

\* BuildingUtils.findValidPositionsInPlot(o, plots[i], generator); entry
\* keeps the engine as the call met it.  The probe copies are unreachable
\* afterwards and leave the position variable.
findValidPositionsInPlotCall(o, i) ==
  /\ lastCall.op = "new"
  /\ \E found \in {findValidPositionsInPlot(Engine, o, plots[i])} :
       /\ lastCall' = [validPositions |-> found.validPositions,
                       plot |-> i,
                       entry |-> Engine]
                        @@ Call("findValidPositionsInPlot", o, Building[o].id,
                                Pos(0, 0), TRUE, NoPlacement)
       /\ tiles' = found.engine.tiles
       /\ buildings' = found.engine.buildings
       /\ buildingInventory' = found.engine.buildingInventory
       /\ position' = [b \in BuildingObjects |-> found.engine.position[b]]
  /\ nCalls' = nCalls + 1
  /\ UNCHANGED <<config, plots>>

NextProbe ==
  \E o \in BuildingObjects, i \in 1..Len(plots) : findValidPositionsInPlotCall(o, i)

SpecProbe == InitProbe /\ [][NextProbe]_vars

\* Position p comes before q in row-major order.
RowMajorBefore(p, q) == p.y < q.y \/ (p.y = q.y /\ p.x < q.x)

\* C37: findValidPositionsInPlot is a pure probe: when it returns, the grid
\* tiles, the building set, the position of the building passed in and the
\* inventory count of every name (a missing counter counting as 0) are what
\* they were before the call, and the list returned holds exactly the
\* positions of the plot at which placeBuilding would be valid, in row-major
\* order.
C37_PureProbe ==
  lastCall.op = "findValidPositionsInPlot" =>
    LET o == lastCall.building
        found == lastCall.validPositions
    IN  /\ tiles = lastCall.entry.tiles
        /\ buildings = lastCall.entry.buildings
        /\ position[o] = lastCall.entry.position[o]
        /\ \A name \in BuildingNames :
              InventoryCount(buildingInventory, name)
                = InventoryCount(lastCall.entry.buildingInventory, name)
        /\ Elements(found)
             = {p \in PlotTiles(plots[lastCall.plot]) :
                  placeBuildingOutcome(Building[o], p).isValid}
        /\ \A j, k \in DOMAIN found : j < k => RowMajorBefore(found[j], found[k])

\* A probe that found positions in two rows and two columns, for a name
\* whose counter did not exist before the call and is 0 after it.
C37_Witness ==
  /\ lastCall.op = "findValidPositionsInPlot"
  /\ \E j, k \in DOMAIN lastCall.validPositions :
        /\ lastCall.validPositions[j].x # lastCall.validPositions[k].x
        /\ lastCall.validPositions[j].y # lastCall.validPositions[k].y
  /\ Building[lastCall.building].name \notin DOMAIN lastCall.entry.buildingInventory
  /\ Building[lastCall.building].name \in DOMAIN buildingInventory
  /\ buildingInventory[Building[lastCall.building].name] = 0

----------------------------------------------------------------------------
(* C38: the buildings a bonus decoration affects *)

\* getBuildingsAffectedByBonus that does not ask whether the building
\* produces on the channel of the bonus.
getBuildingsAffectedByBonusAnyChannel(bonusBuilding) ==
  IF Building[bonusBuilding].bonus = <<>> \/ position[bonusBuilding] = <<>> THEN {}
  ELSE {building \in TrackedObjects :
          /\ ~(\/ Building[building].id = Building[bonusBuilding].id
               \/ position[building] = <<>>)
          /\ isBuildingWithinRadius(building, bonusBuilding,
                                    Building[bonusBuilding].bonus[1].radius,
                                    Building[bonusBuilding].bonus[1].neighborhoodType)}

\* The buildings getBuildingsAffectedByBonus(bonusBuilding) returns.
getBuildingsAffectedByBonus(bonusBuilding) ==
  IF Building[bonusBuilding].bonus = <<>> \/ position[bonusBuilding] = <<>> THEN {}
  ELSE {building \in TrackedObjects :
          /\ ~(\/ Building[building].id = Building[bonusBuilding].id
               \/ position[building] = <<>>
               \/ ~buildingProvidesOutput(Building[building],
                                          Building[bonusBuilding].bonus[1].type))
          /\ isBuildingWithinRadius(building, bonusBuilding,
                                    Building[bonusBuilding].bonus[1].radius,
                                    Building[bonusBuilding].bonus[1].neighborhoodType)}

\* generator.getBuildingsAffectedByBonus(bonusBuilding) on the layout set up.
getBuildingsAffectedByBonusCall(bonusBuilding) ==
  /\ lastCall.op = "new"
  /\ Building[bonusBuilding].type = "decoration"
  /\ nCalls' = nCalls + 1
  /\ lastCall' = [affectedBuildings |-> getBuildingsAffectedByBonus(bonusBuilding)]
                   @@ Call("getBuildingsAffectedByBonus", bonusBuilding,
                           Building[bonusBuilding].id, Pos(0, 0), TRUE, NoPlacement)
  /\ UNCHANGED <<config, tiles, plots, buildings, buildingInventory, position>>

NextAffected ==
  \/ \E o \in BonusObjects, p \in PlotPositions(config) : setUpBuilding(o, p)
  \/ \E id \in TakenDownIds : takeDownBuilding(id)
  \/ \E o \in BonusObjects : getBuildingsAffectedByBonusCall(o)

SpecAffected == InitBonus /\ [][NextAffected]_vars

\* C38: the two views of the bonus relation agree: for a placed bonus
\* decoration S and a placed building T of the same engine, T is among the
\* buildings getBuildingsAffectedByBonus(S) returns exactly when S is among
\* the applied bonuses of T, on the channel S targets, in
\* calculateRevenueOutput(T).
C38_ViewsAgree ==
  ( /\ lastCall.op = "getBuildingsAffectedByBonus"
    /\ lastCall.building \in TrackedObjects
    /\ position[lastCall.building] # <<>>
    /\ Building[lastCall.building].bonus # <<>> )
    => \A T \in TrackedObjects :
          position[T] # <<>> =>
            ( T \in lastCall.affectedBuildings
                <=> lastCall.building
                      \in revenueOutput(buildings, T)
                            [Building[lastCall.building].bonus[1].type].appliedBonuses )

\* The placed terminal was asked for: the cottage beside it is affected,
\* the shop on its other side, which produces coins, is not.
C38_Witness ==
  /\ lastCall.op = "getBuildingsAffectedByBonus"
  /\ lastCall.building = "terminal"
  /\ {"terminal", "cottage", "shop"} \subseteq TrackedObjects
  /\ "cottage" \in lastCall.affectedBuildings
  /\ "shop" \notin lastCall.affectedBuildings
  /\ \E p \in TilesOf("shop"), q \in TilesOf("terminal") : Distance(p, q, "moore") <= 1

----------------------------------------------------------------------------
(* C39 *)

\* C39: for a placed building of any type, calculateBonusOutput agrees with
\* calculateRevenueOutput on the channel the building produces on: the same
\* baseOutput, the same totalBonusPercentage, the same applied bonus sources
\* and the same finalOutput.
C39_OutputsAgree ==
  QueriedPlaced(lastCall) =>
    LET t == lastCall.building
        bonus == IF lastCall.op = "calculateBonusOutput"
                 THEN lastCall.bonus ELSE bonusOutput(t)
        revenue == IF lastCall.op = "calculateRevenueOutput"
                   THEN lastCall.revenue[ProducingChannel(t)]
                   ELSE revenueOutput(buildings, t)[ProducingChannel(t)]
    IN  /\ bonus.baseOutput = revenue.baseOutput
        /\ bonus.totalBonusPercentage = revenue.totalBonusPercentage
        /\ bonus.appliedBonuses = revenue.appliedBonuses
        /\ bonus.finalOutput = revenue.finalOutput

----------------------------------------------------------------------------
(* C40 *)

\* C40: every configuration that validatePlotConfiguration accepts can be
\* constructed into a grid, so optimizeLayout on a validated configuration
\* never returns success = false.
C40_ValidatedIsConstructible ==
  (Searched /\ validatePlotConfiguration(config).isValid) =>
    /\ ~createGridThrows(config)
    /\ \A k \in DOMAIN lastCall.attempts : lastCall.attempts[k].success

====
